---- MODULE Spec2Model ----
(***************************************************************************)
(* firestore-lift: the subscription multiplexer of FirestoreLift           *)
(* (docSubscription / querySubscription), the fingerprint of a query       *)
(* description (stringifyQuery + md5) and the backend listener it drives.  *)
(*                                                                         *)
(* JavaScript is single threaded: subscribe, unsubscribe and the listener  *)
(* callbacks each run to completion.  The only interleaving inside a       *)
(* handler is re-entrancy: a subscriber callback invoked by the fan-out    *)
(* loop may itself call subscribe or unsubscribe before it returns.  The   *)
(* fan-out loop is therefore modelled one callback per step, the callback's*)
(* own calls included in that step.  Subscriber callbacks are assumed to   *)
(* return normally.                                                        *)
(***************************************************************************)
EXTENDS Integers, Sequences, FiniteSets, TLC

\* ------------------------------------------------------------------ bounds
MaxHandles == 2      \* subscribe calls in one run
MaxEvents == 2       \* backend snapshots / errors delivered in one run
MaxTasks == 2        \* task descriptors the caller holds in one run
MaxCalls == 1        \* executeBatch calls in one run
MaxPeople == 4       \* documents of a small store
MaxLimit == 3        \* the greatest limit asked of a small store
MaxQueries == 8      \* queries of one pagination walk
MaxIds == 2          \* ids of one get call

\* ------------------------------------------------------- program constants
defaultQueryLimit == 1000

\* ------------------------------------------------- values and descriptions
\* A JavaScript string is a sequence of tokens, an object a sequence of
\* properties in insertion order (the order JSON.stringify writes them in).
Str(s) == [t |-> "str", v |-> s, rev |-> 0]
Num(s) == [t |-> "num", v |-> s, rev |-> 0]
\* A cursor object (a document): id plus content; rev tells two objects apart.
CursorObj(id, r) == [t |-> "obj", v |-> id, rev |-> r]

Prop(k, isArr, val) == [k |-> k, def |-> TRUE, arr |-> isArr, v |-> val]
Undefined(k) == [k |-> k, def |-> FALSE, arr |-> FALSE, v |-> <<>>]

Keys(obj) == {obj[i].k : i \in DOMAIN obj}
IndexOf(obj, k) == CHOOSE i \in DOMAIN obj : obj[i].k = k
Get(obj, k) == IF k \in Keys(obj) THEN obj[IndexOf(obj, k)] ELSE Undefined(k)

\* scrub: a cursor that is neither a string nor a number is replaced by its id
scrub(a) == IF a.t # "str" /\ a.t # "num" THEN Str(a.v) ELSE a

CursorKeys == <<"endAt", "endBefore", "startAt", "startAfter">>

\* query.k ? query.k.map(scrub) : undefined
ScrubbedCursor(query, k) ==
  LET p == Get(query, k)
  IN IF p.def THEN Prop(k, TRUE, [i \in DOMAIN p.v |-> scrub(p.v[i])]) ELSE Undefined(k)

\* { ...obj, k: p.v }: an existing key keeps its place, a new key is appended
SetProp(obj, p) ==
  IF p.k \in Keys(obj) THEN [obj EXCEPT ![IndexOf(obj, p.k)] = p] ELSE Append(obj, p)

RECURSIVE Overlay(_, _, _)
Overlay(obj, query, i) ==
  IF i > Len(CursorKeys) THEN obj
  ELSE Overlay(SetProp(obj, ScrubbedCursor(query, CursorKeys[i])), query, i + 1)

AtomTokens(a) == <<a.t, a.v>>

RECURSIVE ArrayTokens(_)
ArrayTokens(s) == IF s = <<>> THEN <<>> ELSE AtomTokens(Head(s)) \o ArrayTokens(Tail(s))

PropTokens(p) ==
  IF ~p.def THEN <<>>
  ELSE <<p.k, ":">> \o (IF p.arr THEN <<"[">> \o ArrayTokens(p.v) \o <<"]">> ELSE ArrayTokens(p.v))
       \o <<",">>

\* JSON.stringify of an object: its defined properties, in insertion order
RECURSIVE JSONstringify(_)
JSONstringify(obj) ==
  IF obj = <<>> THEN <<>> ELSE PropTokens(Head(obj)) \o JSONstringify(Tail(obj))

\* JSON.stringify of a string: the string, quoted
JSONquote(s) == <<"\"">> \o s \o <<"\"">>

stringifyQuery(query) == JSONquote(<<"{">> \o JSONstringify(Overlay(query, query, 1)) \o <<"}">>)

md5(s) == [md5 |-> s]

\* What a subscription object is made from: a document id or a query description
DocSource(id) == [kind |-> "doc", docId |-> <<id>>, query |-> <<>>]
QuerySource(q) == [kind |-> "query", docId |-> <<>>, query |-> q]

\* subscriptionId of docSubscription(p) and of querySubscription(query)
Fingerprint(src) ==
  IF src.kind = "doc" THEN md5(src.docId) ELSE md5(stringifyQuery(src.query))

\* What one run's callers subscribe to: a document and a query
Q1 == <<Prop("limit", FALSE, <<Num("2")>>), Prop("startAt", TRUE, <<CursorObj("a", 1)>>)>>
Sources == {DocSource("p1"), QuerySource(Q1)}

\* Query descriptions written by hand: any of these properties, in any order
QueryProps ==
  {Prop("limit", FALSE, <<Num("2")>>), Prop("startAt", TRUE, <<CursorObj("a", 1)>>),
   Prop("startAt", TRUE, <<CursorObj("a", 2)>>), Prop("startAt", TRUE, <<Str("a")>>)}
QuerySpace ==
  {<< >>} \cup {<<p>> : p \in QueryProps}
          \cup {<<p, q>> : <<p, q>> \in {pq \in QueryProps \X QueryProps : pq[1].k # pq[2].k}}

\* Structural equality of two descriptions: the same properties with the same
\* values, whatever object holds them; cursor objects are compared by their id
Shape(q) ==
  {[k |-> q[i].k, arr |-> q[i].arr, v |-> [j \in DOMAIN q[i].v |-> [t |-> q[i].v[j].t, v |-> q[i].v[j].v]]] :
     i \in {x \in DOMAIN q : q[x].def}}
StructurallyEqual(qa, qb) == Shape(qa) = Shape(qb)
EqualPairs ==
  {{QuerySource(pq[1]), QuerySource(pq[2])} :
     pq \in {x \in QuerySpace \X QuerySpace : x[1] # x[2] /\ StructurallyEqual(x[1], x[2])}}

Fingerprints == {Fingerprint(s) : s \in Sources \cup {QuerySource(q) : q \in QuerySpace}}

\* ------------------------------------------------- documents and payloads
\* A JavaScript value of a document or payload: a scalar, or an object whose
\* properties are kept in insertion order.  A property (or a whole payload,
\* with k = "") is a node: a leaf holding a scalar or a mapping holding nodes.
StringValue(s) == [t |-> "string", s |-> s, n |-> 0]
NumberValue(n) == [t |-> "number", s |-> "", n |-> n]
BooleanValue(b) == [t |-> "boolean", s |-> IF b THEN "true" ELSE "false", n |-> 0]
ObjectValue == [t |-> "object", s |-> "", n |-> 0]
\* The field operators of the backend module
FieldValueDelete == [t |-> "FieldValue.delete", s |-> "", n |-> 0]
FieldValueIncrement(n) == [t |-> "FieldValue.increment", s |-> "", n |-> n]

Field(k, val) == [k |-> k, leaf |-> TRUE, v |-> val, kids |-> << >>]
Nested(k, kids) == [k |-> k, leaf |-> FALSE, v |-> ObjectValue, kids |-> kids]
Object(kids) == Nested("", kids)
NoDoc == Object(<< >>)

MagicDeleteString == StringValue("____DELETE_DELETE_DELETE_DELETE____")
MagicIncrementString == StringValue("____INCREMENT_INCREMENT_INCREMENT____")

IsDirective(val) == val.t \in {"FieldValue.delete", "FieldValue.increment"}

\* Whether a payload holds value val at some leaf
RECURSIVE Holds(_, _)
Holds(node, val) ==
  IF node.leaf THEN node.v = val
  ELSE \E i \in DOMAIN node.kids : Holds(node.kids[i], val)

RECURSIVE HoldsDirective(_)
HoldsDirective(node) ==
  IF node.leaf THEN IsDirective(node.v)
  ELSE \E i \in DOMAIN node.kids : HoldsDirective(node.kids[i])

\* ------------------------------------------------------ the backend store
\* A stored document is the set of its leaves, each under its field path.
RECURSIVE Flatten(_, _)
Flatten(node, prefix) ==
  IF node.leaf THEN {[p |-> prefix, v |-> node.v]}
  ELSE UNION {Flatten(node.kids[i], Append(prefix, node.kids[i].k)) : i \in DOMAIN node.kids}

IsPrefix(p, q) == Len(p) <= Len(q) /\ SubSeq(q, 1, Len(p)) = p
Under(data, path) == {e \in data : IsPrefix(path, e.p)}
Clash(e, leaf) == IsPrefix(e.p, leaf.p) \/ IsPrefix(leaf.p, e.p)

\* The number a document holds at a path (0 when it holds none)
NumberAt(data, path) ==
  LET old == {e \in data : e.p = path /\ e.v.t = "number"}
  IN IF old = {} THEN 0 ELSE (CHOOSE e \in old : TRUE).v.n

\* What the backend stores for a written leaf: a field operator is resolved
\* against the stored document, anything else is stored as it is
Stored(data, leaf) ==
  IF leaf.v.t = "FieldValue.increment"
  THEN LET old == {e \in data : e.p = leaf.p /\ e.v.t = "number"}
       IN [p |-> leaf.p,
           v |-> NumberValue((IF old = {} THEN 0 ELSE (CHOOSE e \in old : TRUE).v.n) + leaf.v.n)]
  ELSE leaf

\* Writing leaves into a document: each replaces what is stored at, above and
\* below its path; a deleted field leaves nothing behind
WriteLeaves(data, leaves) ==
  {e \in data : \A l \in leaves : ~Clash(e, l)}
    \cup {Stored(data, l) : l \in {x \in leaves : x.v # FieldValueDelete}}

\* A field path as the backend reads it: the keys joined by dots
RECURSIVE JoinPath(_)
JoinPath(keys) ==
  IF keys = << >> THEN << >>
  ELSE IF Len(keys) = 1 THEN keys
  ELSE <<Head(keys), ".">> \o JoinPath(Tail(keys))

RECURSIVE SplitPath(_, _)
SplitPath(path, acc) ==
  IF path = << >> THEN acc
  ELSE IF Head(path) = "." THEN SplitPath(Tail(path), acc)
  ELSE SplitPath(Tail(path), Append(acc, Head(path)))

Absent == [exists |-> FALSE, data |-> {}]
Present(data) == [exists |-> TRUE, data |-> data]

\* One write operation of a backend batch, as the store applies it
\*   set(ref, data)                  the document becomes data
\*   set(ref, data, {merge: true})   data's leaves are written into the document
\*   update(ref, data)               each top-level field of data replaces the
\*                                   stored field; the document must exist
\*   update(ref, {[path]: data})     data replaces what is stored at path
\*   delete(ref)
DocAt(st, id) == IF id \in DOMAIN st THEN st[id] ELSE Absent
SetDoc(st, id, doc) == [x \in DOMAIN st \cup {id} |-> IF x = id THEN doc ELSE st[x]]

OpApplies(st, op) == op.method = "update" => DocAt(st, op.id).exists

ApplyOp(st, op) ==
  LET doc == DocAt(st, op.id)
      at == SplitPath(op.path, << >>)
      leaves == Flatten(op.data, at)
  IN CASE op.method = "delete" -> SetDoc(st, op.id, Absent)
       [] op.method = "set" /\ ~op.merge -> SetDoc(st, op.id, Present(WriteLeaves({}, leaves)))
       [] op.method = "set" /\ op.merge -> SetDoc(st, op.id, Present(WriteLeaves(doc.data, leaves)))
       [] op.method = "update" ->
            LET tops == IF at # << >> THEN {at}
                        ELSE {<<op.data.kids[i].k>> : i \in DOMAIN op.data.kids}
            IN SetDoc(st, op.id,
                 Present({e \in doc.data : \A t \in tops : ~IsPrefix(t, e.p) /\ ~IsPrefix(e.p, t)}
                           \cup {Stored(doc.data, l) : l \in {x \in leaves : x.v # FieldValueDelete}}))

\* batch.commit(): every operation takes effect, in order, or none does
RECURSIVE ApplyAll(_, _)
ApplyAll(st, ops) == IF ops = << >> THEN st ELSE ApplyAll(ApplyOp(st, Head(ops)), Tail(ops))

RECURSIVE AllApply(_, _)
AllApply(st, ops) ==
  IF ops = << >> THEN TRUE
  ELSE OpApplies(st, Head(ops)) /\ AllApply(ApplyOp(st, Head(ops)), Tail(ops))

\* ---------------------------------------------------------- task descriptors
UndefinedId == "undefined"
\* A variant of the test that lets a blank id through
Falsy_UndefinedOnly(id) == id = UndefinedId

Falsy(id) == id \in {"", UndefinedId}

\* BatchTask: every kind has type, id and collection; doc, pathObj and value
\* are NoDoc where the kind has none
Task(type, id, doc, pathObj, value) ==
  [type |-> type, id |-> id, collection |-> "person", doc |-> doc,
   pathObj |-> pathObj, value |-> value]
BatchTaskEmpty == [Task("empty", "", NoDoc, NoDoc, NoDoc) EXCEPT !.collection = "empty"]

Fred ==
  Object(<<Field("id", StringValue("p1")), Field("age", NumberValue(35)),
           Nested("favFoods", <<Field("american", StringValue("burger")),
                                Field("asian", StringValue("orange chicken"))>>)>>)
InitialStore == [d \in {"p1"} |-> Present(Flatten(Fred, << >>))]

\* ------------------------------------------------------- sentinels and paths
\* A variant that leaves the increment sentinel where it stands
checkForMagicIncrementString_Keeps(leaf) == leaf

\* The branch of the substitution for the increment sentinel
checkForMagicIncrementString(leaf) ==
  IF leaf.v = MagicIncrementString THEN [leaf EXCEPT !.v = FieldValueIncrement(1)] ELSE leaf

\* A variant of the walk that stops at the first level
checkForMagicDeleteString_TopLevelOnly(obj) ==
  IF ~obj.leaf
  THEN [obj EXCEPT !.kids =
          [i \in DOMAIN obj.kids |->
             IF obj.kids[i].leaf /\ obj.kids[i].v = MagicDeleteString
             THEN [obj.kids[i] EXCEPT !.v = FieldValueDelete]
             ELSE IF ~obj.kids[i].leaf THEN obj.kids[i]
             ELSE checkForMagicIncrementString(obj.kids[i])]]
  ELSE obj

\* checkForMagicDeleteString(obj): walks obj and rewrites it in place; the
\* result is what obj holds afterwards
RECURSIVE checkForMagicDeleteString(_)
checkForMagicDeleteString(obj) ==
  IF ~obj.leaf
  THEN [obj EXCEPT !.kids =
          [i \in DOMAIN obj.kids |->
             IF obj.kids[i].leaf /\ obj.kids[i].v = MagicDeleteString
             THEN [obj.kids[i] EXCEPT !.v = FieldValueDelete]
             ELSE IF ~obj.kids[i].leaf THEN checkForMagicDeleteString(obj.kids[i])
             ELSE checkForMagicIncrementString(obj.kids[i])]]
  ELSE obj

\* A variant of the descent that does not accumulate the keys it follows
RECURSIVE generateFirestorePathFromObject_ForgetsKeys(_, _)
generateFirestorePathFromObject_ForgetsKeys(obj, acc) ==
  IF obj.leaf
  THEN [path |-> JoinPath(acc), value |-> obj.v, warned |-> FALSE, threw |-> FALSE]
  ELSE IF obj.kids = << >>
  THEN [path |-> JoinPath(Append(acc, UndefinedId)), value |-> ObjectValue,
        warned |-> FALSE, threw |-> TRUE]
  ELSE LET r == generateFirestorePathFromObject_ForgetsKeys(obj.kids[1], acc)
       IN [r EXCEPT !.warned = @ \/ Len(obj.kids) > 1]

\* A variant that follows the last key of a level
RECURSIVE generateFirestorePathFromObject_LastKey(_, _)
generateFirestorePathFromObject_LastKey(obj, acc) ==
  IF obj.leaf
  THEN [path |-> JoinPath(acc), value |-> obj.v, warned |-> FALSE, threw |-> FALSE]
  ELSE IF obj.kids = << >>
  THEN [path |-> JoinPath(Append(acc, UndefinedId)), value |-> ObjectValue,
        warned |-> FALSE, threw |-> TRUE]
  ELSE LET last == obj.kids[Len(obj.kids)]
           r == generateFirestorePathFromObject_LastKey(last, Append(acc, last.k))
       IN [r EXCEPT !.warned = @ \/ Len(obj.kids) > 1]

\* generateFirestorePathFromObject(obj, acc): follows the first key of every
\* level down to a leaf; Object.keys of what an empty level leads to throws
RECURSIVE generateFirestorePathFromObject(_, _)
generateFirestorePathFromObject(obj, acc) ==
  IF obj.leaf
  THEN [path |-> JoinPath(acc), value |-> obj.v, warned |-> FALSE, threw |-> FALSE]
  ELSE IF obj.kids = << >>
  THEN [path |-> JoinPath(Append(acc, UndefinedId)), value |-> ObjectValue,
        warned |-> FALSE, threw |-> TRUE]
  ELSE LET r == generateFirestorePathFromObject(obj.kids[1], Append(acc, obj.kids[1].k))
       IN [r EXCEPT !.warned = @ \/ Len(obj.kids) > 1]

\* The sub-value of a value-object at a path: the same descent, by the path's keys
RECURSIVE ValueAtPath(_, _)
ValueAtPath(obj, keys) ==
  IF keys = << >> THEN [found |-> TRUE, node |-> obj]
  ELSE IF obj.leaf \/ Head(keys) \notin Keys(obj.kids) THEN [found |-> FALSE, node |-> NoDoc]
  ELSE ValueAtPath(obj.kids[IndexOf(obj.kids, Head(keys))], Tail(keys))

\* ------------------------------------------------------------- BatchRunner
\* The operations of a backend batch
BatchSet(id, data, merge) == [method |-> "set", id |-> id, data |-> data, merge |-> merge, path |-> << >>]
BatchUpdate(id, data, path) == [method |-> "update", id |-> id, data |-> data, merge |-> FALSE, path |-> path]
BatchDelete(id) == [method |-> "delete", id |-> id, data |-> NoDoc, merge |-> FALSE, path |-> << >>]

\* case "setPath": the path of pathObj, the sub-value of value at that path,
\* substituted, written at the path by one update
setPathCase(task) ==
  LET r == generateFirestorePathFromObject(task.pathObj, << >>)
      target == ValueAtPath(task.value, SplitPath(r.path, << >>))
  IN IF r.threw \/ ~target.found THEN [threw |-> TRUE, op |-> BatchDelete(task.id)]
     ELSE [threw |-> FALSE,
           op |-> BatchUpdate(task.id, checkForMagicDeleteString(target.node), r.path)]

LacksAnId == "Unable to process item. Lacks an id."
TypeError == "TypeError"
CommitError == "commit failed"

\* A variant of the loop body that tests the id before it tests for "empty"
executeBatchTask_IdBeforeEmpty(run, i) ==
  LET task == run.tasks[i]
  IN IF Falsy(task.id) THEN [run EXCEPT !.threw = TRUE, !.error = LacksAnId]
     ELSE IF task.type = "empty" THEN run
     ELSE CASE task.type = "add" ->
                 [run EXCEPT !.ops = Append(@, BatchSet(task.id, task.doc, FALSE))]
            [] task.type = "shallowUpdate" ->
                 LET newObj == checkForMagicDeleteString(task.doc)
                 IN [run EXCEPT !.tasks[i].doc = newObj,
                                !.ops = Append(@, BatchUpdate(task.id, newObj, << >>))]
            [] task.type = "update" ->
                 LET newObj == checkForMagicDeleteString(task.doc)
                 IN [run EXCEPT !.tasks[i].doc = newObj,
                                !.ops = Append(@, BatchSet(task.id, newObj, TRUE))]
            [] task.type = "delete" ->
                 [run EXCEPT !.ops = Append(@, BatchDelete(task.id))]
            [] task.type = "setPath" ->
                 LET c == setPathCase(task)
                 IN IF c.threw THEN [run EXCEPT !.threw = TRUE, !.error = TypeError]
                    ELSE [run EXCEPT !.ops = Append(@, c.op)]
            [] OTHER -> run

\* The body of the for loop for b[i], run on what the loop has done so far:
\* the operations enqueued in the batch and the tasks as they are by now
executeBatchTask(run, i) ==
  LET task == run.tasks[i]
  IN IF task.type = "empty" THEN run
     ELSE IF Falsy(task.id) THEN [run EXCEPT !.threw = TRUE, !.error = LacksAnId]
     ELSE CASE task.type = "add" ->
                 [run EXCEPT !.ops = Append(@, BatchSet(task.id, task.doc, FALSE))]
            [] task.type = "shallowUpdate" ->
                 LET newObj == checkForMagicDeleteString(task.doc)
                 IN [run EXCEPT !.tasks[i].doc = newObj,
                                !.ops = Append(@, BatchUpdate(task.id, newObj, << >>))]
            [] task.type = "update" ->
                 LET newObj == checkForMagicDeleteString(task.doc)
                 IN [run EXCEPT !.tasks[i].doc = newObj,
                                !.ops = Append(@, BatchSet(task.id, newObj, TRUE))]
            [] task.type = "delete" ->
                 [run EXCEPT !.ops = Append(@, BatchDelete(task.id))]
            [] task.type = "setPath" ->
                 LET c == setPathCase(task)
                 IN IF c.threw THEN [run EXCEPT !.threw = TRUE, !.error = TypeError]
                    ELSE [run EXCEPT !.ops = Append(@, c.op)]
            [] OTHER -> run

RECURSIVE executeBatchLoop(_, _)
executeBatchLoop(run, i) ==
  IF i > Len(run.tasks) \/ run.threw THEN run
  ELSE executeBatchLoop(executeBatchTask(run, i), i + 1)

\* executeBatch(b) up to `await batch.commit()`, or up to the throw of the
\* catch block when the loop threw
executeBatch(b) ==
  LET run == executeBatchLoop([tasks |-> b, ops |-> << >>, threw |-> FALSE, error |-> ""], 1)
  IN [pc |-> IF run.threw THEN "threw" ELSE "committing",
      given |-> b, tasks |-> run.tasks, ops |-> run.ops,
      commits |-> IF run.threw THEN 0 ELSE 1,
      error |-> run.error,
      logged |-> IF run.threw THEN 2 ELSE 0,
      returned |-> << >>]

\* batch.commit() resolved: executeBatch returns the empty task
commitResolved(x) == [x EXCEPT !.pc = "returned", !.returned = <<BatchTaskEmpty>>]
\* A variant of the catch block that throws an error of its own
commitRejected_Wraps(x) ==
  [x EXCEPT !.pc = "threw", !.error = "Error: " \o CommitError, !.logged = 2]

\* batch.commit() rejected with e: the catch block logs and rethrows e
commitRejected(x) == [x EXCEPT !.pc = "threw", !.error = CommitError, !.logged = 2]


\* ------------------------------------------- FirestoreLift: add, update, ...
\* The client's configuration: test.ts sets both flags and a schema
Configs == [addIdPropertyByDefault : BOOLEAN, prefixIdWithCollection : {TRUE}]
TestConfig == [addIdPropertyByDefault |-> TRUE, prefixIdWithCollection |-> TRUE]

\* generateId(): the n-th id generated in a run
generateId(cfg, n) ==
  IF cfg.prefixIdWithCollection THEN "person-" \o ToString(n) ELSE "push" \o ToString(n)

\* The schema of the collection: the fields a document must have
RequiredPaths == {<<"id">>, <<"age">>, <<"favFoods", "american">>, <<"favFoods", "asian">>}
validateDoc(doc) == \A p \in RequiredPaths : \E e \in Flatten(doc, << >>) : e.p = p

\* item["id"], and whether it is truthy
ItemId(item) ==
  IF "id" \in Keys(item.kids) THEN item.kids[IndexOf(item.kids, "id")].v.s ELSE UndefinedId
SetId(item, id) ==
  IF "id" \in Keys(item.kids)
  THEN [item EXCEPT !.kids[IndexOf(item.kids, "id")] = Field("id", StringValue(id))]
  ELSE [item EXCEPT !.kids = Append(@, Field("id", StringValue(id)))]

SchemaError == "Unable to add item. Schema does not match. Collection: person"

\* A request: what add / update / setPath / delete is called with
Request(kind, id, item, pathObj, value) ==
  [kind |-> kind, id |-> id, item |-> item, pathObj |-> pathObj, value |-> value]

\* A variant of add that reads the id for the task before it generated one
add_IdReadFirst(request, cfg, gen) ==
  LET needsId == cfg.addIdPropertyByDefault /\ Falsy(ItemId(request.item))
      item == IF needsId THEN SetId(request.item, generateId(cfg, gen + 1)) ELSE request.item
      gen1 == IF needsId THEN gen + 1 ELSE gen
  IN IF ~validateDoc(item)
     THEN [threw |-> TRUE, error |-> SchemaError, task |-> BatchTaskEmpty, generated |-> gen1]
     ELSE [threw |-> FALSE, error |-> "",
           task |-> Task("add", ItemId(request.item), item, NoDoc, NoDoc), generated |-> gen1]

\* A variant of add that builds the task without validating the item
add_Unvalidated(request, cfg, gen) ==
  LET needsId == cfg.addIdPropertyByDefault /\ Falsy(ItemId(request.item))
      item == IF needsId THEN SetId(request.item, generateId(cfg, gen + 1)) ELSE request.item
      gen1 == IF needsId THEN gen + 1 ELSE gen
  IN [threw |-> FALSE, error |-> "",
      task |-> Task("add", ItemId(item), item, NoDoc, NoDoc), generated |-> gen1]

\* The task each method builds (or the error it throws before it built one);
\* gen counts the ids generated so far
add(request, cfg, gen) ==
  LET needsId == cfg.addIdPropertyByDefault /\ Falsy(ItemId(request.item))
      item == IF needsId THEN SetId(request.item, generateId(cfg, gen + 1)) ELSE request.item
      gen1 == IF needsId THEN gen + 1 ELSE gen
  IN IF ~validateDoc(item)
     THEN [threw |-> TRUE, error |-> SchemaError, task |-> BatchTaskEmpty, generated |-> gen1]
     ELSE [threw |-> FALSE, error |-> "",
           task |-> Task("add", ItemId(item), item, NoDoc, NoDoc), generated |-> gen1]

setPath(request, cfg, gen) ==
  [threw |-> FALSE, error |-> "",
   task |-> Task("setPath", request.id, NoDoc, request.pathObj, request.value), generated |-> gen]

\* A variant of update that substitutes the sentinels when it builds the task
update_Substitutes(request, cfg, gen) ==
  [threw |-> FALSE, error |-> "",
   task |-> Task("update", request.id, checkForMagicDeleteString(request.item), NoDoc, NoDoc),
   generated |-> gen]

update(request, cfg, gen) ==
  [threw |-> FALSE, error |-> "",
   task |-> Task("update", request.id, request.item, NoDoc, NoDoc), generated |-> gen]

delete(request, cfg, gen) ==
  [threw |-> FALSE, error |-> "",
   task |-> Task("delete", request.id, NoDoc, NoDoc, NoDoc), generated |-> gen]

Method(request, cfg, gen) ==
  CASE request.kind = "add" -> add(request, cfg, gen)
    [] request.kind = "setPath" -> setPath(request, cfg, gen)
    [] request.kind = "update" -> update(request, cfg, gen)
    [] request.kind = "delete" -> delete(request, cfg, gen)

\* What one run's callers ask for
Sue ==
  Object(<<Field("id", StringValue("p2")), Field("age", NumberValue(60)),
           Nested("favFoods", <<Field("american", StringValue("cheese")),
                                Field("asian", StringValue("rice"))>>)>>)
Anonymous ==
  Object(<<Field("age", NumberValue(4)),
           Nested("favFoods", <<Field("american", StringValue("burger")),
                                Field("asian", StringValue("sushi"))>>)>>)
malformedObject ==
  Object(<<Field("id", StringValue("p5")), Field("age", NumberValue(4)),
           Nested("favFoods", <<Field("asian", StringValue("sushi"))>>)>>)

DeleteAmerican == Object(<<Nested("favFoods", <<Field("american", MagicDeleteString)>>)>>)
OlderAndRice ==
  Object(<<Field("age", MagicIncrementString),
           Nested("favFoods", <<Field("asian", StringValue("rice"))>>)>>)
FavFoodsPath == Object(<<Field("favFoods", BooleanValue(TRUE))>>)
FavFoodsValue == Object(<<Nested("favFoods", <<Field("american", StringValue("X"))>>)>>)

AmericanPath == Object(<<Nested("favFoods", <<Field("american", BooleanValue(TRUE))>>)>>)

Requests ==
  {Request("add", "", Sue, NoDoc, NoDoc),
   Request("add", "", Anonymous, NoDoc, NoDoc),
   Request("add", "", malformedObject, NoDoc, NoDoc),
   Request("update", "p1", DeleteAmerican, NoDoc, NoDoc),
   Request("update", "p1", OlderAndRice, NoDoc, NoDoc),
   Request("update", UndefinedId, OlderAndRice, NoDoc, NoDoc),
   Request("setPath", "p1", NoDoc, FavFoodsPath, FavFoodsValue),
   Request("setPath", "p1", NoDoc, AmericanPath, DeleteAmerican),
   Request("delete", "p1", NoDoc, NoDoc, NoDoc),
   Request("delete", "", NoDoc, NoDoc, NoDoc)}

\* Descriptors a caller writes by hand or keeps from an earlier call
HandMade ==
  {BatchTaskEmpty,
   Task("shallowUpdate", "p1", Object(<<Field("age", NumberValue(36))>>), NoDoc, NoDoc)}

\* ------------------------------------------------------ the read path: data
\* The people of the collection, in the order of their document keys: ids of
\* equal length, so the order of the keys is the order of their numbers.
PersonId(i) == "p" \o ToString(1000 + i)
Ages == <<35, 60, 35, 4>>
Age(i) == Ages[((i - 1) % Len(Ages)) + 1]
\* Every fourth person was stored without favFoods.american (as malformedObject)
Person(i) ==
  {[p |-> <<"id">>, v |-> StringValue(PersonId(i))],
   [p |-> <<"age">>, v |-> NumberValue(Age(i))],
   [p |-> <<"favFoods", "asian">>, v |-> StringValue("sushi")]}
    \cup (IF i % 4 = 0 THEN {}
          ELSE {[p |-> <<"favFoods", "american">>, v |-> StringValue("burger")]})
\* The store with the first n people
People(n) == [id \in {PersonId(i) : i \in 1..n} |->
                Present(Person(CHOOSE i \in 1..n : PersonId(i) = id))]

\* A stored document against the schema
ValidData(data) == \A p \in RequiredPaths : \E e \in data : e.p = p

\* ----------------------------------------------- the read path: descriptions
\* An optional property is << >> when undefined and <<v>> when set.
\* An [operator, value] pair as the leaf of a filter clause
FilterValue(op, n) == [t |-> "array", s |-> op, n |-> n]
SimpleQuery(limit, where, orderBy, startAt, endAt) ==
  [limit |-> limit, where |-> where, orderBy |-> orderBy, startAt |-> startAt,
   endAt |-> endAt, _internalStartAfterDocId |-> << >>]

QueryValueError == "Query value must be an array."
CursorError == "Too many arguments provided to startAt/endAt, or the cursor document has no position."

\* generateQueryRef(queryRequest, collection, fireStore): the backend query
\* built call by call
\* A variant that takes the leaf of a clause for a pair without looking
RECURSIVE WhereCalls_Unchecked(_)
WhereCalls_Unchecked(where) ==
  IF where = << >> THEN [threw |-> FALSE, error |-> "", calls |-> << >>]
  ELSE LET r1 == generateFirestorePathFromObject(Head(where), << >>)
           rest == WhereCalls_Unchecked(Tail(where))
       IN IF r1.threw THEN [threw |-> TRUE, error |-> TypeError, calls |-> << >>]
          ELSE IF rest.threw THEN rest
          ELSE [rest EXCEPT !.calls = <<[path |-> r1.path, op |-> r1.value.s,
                                         value |-> r1.value.n]>> \o @]

RECURSIVE WhereCalls(_)
WhereCalls(where) ==
  IF where = << >> THEN [threw |-> FALSE, error |-> "", calls |-> << >>]
  ELSE LET r1 == generateFirestorePathFromObject(Head(where), << >>)
           rest == WhereCalls(Tail(where))
       IN IF r1.threw THEN [threw |-> TRUE, error |-> TypeError, calls |-> << >>]
          ELSE IF r1.value.t # "array"
          THEN [threw |-> TRUE, error |-> QueryValueError, calls |-> << >>]
          ELSE IF rest.threw THEN rest
          ELSE [rest EXCEPT !.calls = <<[path |-> r1.path, op |-> r1.value.s,
                                         value |-> r1.value.n]>> \o @]

RECURSIVE OrderByCalls(_)
OrderByCalls(orderBy) ==
  IF orderBy = << >> THEN [threw |-> FALSE, error |-> "", calls |-> << >>]
  ELSE LET r == generateFirestorePathFromObject(Head(orderBy).pathObj, << >>)
           rest == OrderByCalls(Tail(orderBy))
       IN IF r.threw THEN [threw |-> TRUE, error |-> TypeError, calls |-> << >>]
          ELSE IF rest.threw THEN rest
          ELSE [rest EXCEPT !.calls = <<[path |-> r.path, dir |-> Head(orderBy).dir]>> \o @]

\* A variant that applies startAt whether or not there is a token
generateQueryRef_StartAtKept(queryRequest) ==
  LET w == WhereCalls(queryRequest.where)
      o == OrderByCalls(queryRequest.orderBy)
      token == queryRequest._internalStartAfterDocId
  IN IF w.threw THEN [threw |-> TRUE, error |-> w.error]
     ELSE IF o.threw THEN [threw |-> TRUE, error |-> o.error]
     ELSE [threw |-> FALSE, error |-> "",
           where |-> w.calls, orderBy |-> o.calls,
           startAfter |-> token,
           startAt |-> queryRequest.startAt,
           endAt |-> queryRequest.endAt,
           limit |-> IF queryRequest.limit = << >> THEN defaultQueryLimit
                     ELSE queryRequest.limit[1]]

generateQueryRef(queryRequest) ==
  LET w == WhereCalls(queryRequest.where)
      o == OrderByCalls(queryRequest.orderBy)
      token == queryRequest._internalStartAfterDocId
  IN IF w.threw THEN [threw |-> TRUE, error |-> w.error]
     ELSE IF o.threw THEN [threw |-> TRUE, error |-> o.error]
     ELSE [threw |-> FALSE, error |-> "",
           where |-> w.calls, orderBy |-> o.calls,
           startAfter |-> token,
           startAt |-> IF token # << >> THEN << >> ELSE queryRequest.startAt,
           endAt |-> queryRequest.endAt,
           limit |-> IF queryRequest.limit = << >> THEN defaultQueryLimit
                     ELSE queryRequest.limit[1]]

\* ------------------------------------------------- the backend: query.get()
\* The numbers of the people a store holds, in key order
Stocked(st) == SelectSeq([i \in 1..Cardinality(DOMAIN st) |-> i],
                         LAMBDA i : PersonId(i) \in DOMAIN st /\ st[PersonId(i)].exists)
HasNumber(data, path) == \E e \in data : e.p = path /\ e.v.t = "number"
Compare(op, a, b) ==
  CASE op = "<" -> a < b
    [] op = "<=" -> a <= b
    [] op = "==" -> a = b
    [] op = ">=" -> a >= b
    [] op = ">" -> a > b
    [] OTHER -> FALSE
\* where(path, op, value): the field is there and compares as asked
Matches(data, w) ==
  HasNumber(data, SplitPath(w.path, << >>))
    /\ Compare(w.op, NumberAt(data, SplitPath(w.path, << >>)), w.value)
\* The order of the result: by the orderBy field, then by key, both in the
\* direction asked for; by key when there is no orderBy
Precedes(st, c, i, j) ==
  IF c.orderBy = << >> THEN i < j
  ELSE LET path == SplitPath(c.orderBy[1].path, << >>)
           a == NumberAt(st[PersonId(i)].data, path)
           b == NumberAt(st[PersonId(j)].data, path)
       IN IF c.orderBy[1].dir = "desc" THEN a > b \/ (a = b /\ i > j)
          ELSE a < b \/ (a = b /\ i < j)
\* startAt(v) / endAt(v): the bound on the orderBy field, in its direction
AtOrAfter(st, c, i, v) ==
  LET a == NumberAt(st[PersonId(i)].data, SplitPath(c.orderBy[1].path, << >>))
  IN IF c.orderBy[1].dir = "desc" THEN a <= v ELSE a >= v
AtOrBefore(st, c, i, v) ==
  LET a == NumberAt(st[PersonId(i)].data, SplitPath(c.orderBy[1].path, << >>))
  IN IF c.orderBy[1].dir = "desc" THEN a >= v ELSE a <= v
RankOf(st, id) == CHOOSE i \in 1..Cardinality(DOMAIN st) : PersonId(i) = id

\* The documents the filters and the orderBy fields let through, in key order
Matching(c, st) ==
  SelectSeq(Stocked(st),
    LAMBDA i : /\ \A k \in DOMAIN c.where : Matches(st[PersonId(i)].data, c.where[k])
               /\ \A k \in DOMAIN c.orderBy :
                    HasNumber(st[PersonId(i)].data, SplitPath(c.orderBy[k].path, << >>)))
Ordered(c, st) ==
  IF c.orderBy = << >> THEN Matching(c, st)
  ELSE SortSeq(Matching(c, st), LAMBDA i, j : Precedes(st, c, i, j))
\* A variant that starts at the snapshot, not after it
From_AtTheSnapshot(c, st) ==
  IF c.startAfter # << >>
  THEN LET anchor == RankOf(st, c.startAfter[1])
       IN SelectSeq(Ordered(c, st), LAMBDA i : i = anchor \/ Precedes(st, c, anchor, i))
  ELSE IF c.startAt # << >>
  THEN SelectSeq(Ordered(c, st), LAMBDA i : AtOrAfter(st, c, i, c.startAt[1]))
  ELSE Ordered(c, st)

\* startAfter(snapshot) when there is one, else startAt(values) when given
From(c, st) ==
  IF c.startAfter # << >>
  THEN LET anchor == RankOf(st, c.startAfter[1])
       IN SelectSeq(Ordered(c, st), LAMBDA i : Precedes(st, c, anchor, i))
  ELSE IF c.startAt # << >>
  THEN SelectSeq(Ordered(c, st), LAMBDA i : AtOrAfter(st, c, i, c.startAt[1]))
  ELSE Ordered(c, st)
UpTo(c, st) ==
  IF c.endAt # << >>
  THEN SelectSeq(From(c, st), LAMBDA i : AtOrBefore(st, c, i, c.endAt[1]))
  ELSE From(c, st)
\* A cursor the backend refuses: a snapshot of no document or without the
\* orderBy field, or cursor values with no orderBy to read them by
BadCursor(c, st) ==
  \/ /\ c.startAfter # << >>
     /\ \/ ~DocAt(st, c.startAfter[1]).exists
        \/ \E k \in DOMAIN c.orderBy :
             ~HasNumber(DocAt(st, c.startAfter[1]).data, SplitPath(c.orderBy[k].path, << >>))
  \/ (c.startAt # << >> \/ c.endAt # << >>) /\ c.orderBy = << >>
FirstOf(s, n) == SubSeq(s, 1, IF Len(s) < n THEN Len(s) ELSE n)

RunQuery(c, st) ==
  IF BadCursor(c, st) THEN [threw |-> TRUE, error |-> CursorError, docs |-> << >>]
  ELSE LET page == FirstOf(UpTo(c, st), c.limit)
       IN [threw |-> FALSE, error |-> "", docs |-> [k \in DOMAIN page |-> PersonId(page[k])]]

\* ------------------------------------------------------ FirestoreLift: query
Failed(error) ==
  [threw |-> TRUE, error |-> error, items |-> << >>, rawDocItems |-> << >>,
   nextQuery |-> << >>, warned |-> FALSE, fetches |-> 0]

\* generateQueryRef(...), then startAfter(startAfterDoc) again when the
\* description carries a token
QueryOf(queryRequest) ==
  LET built == generateQueryRef(queryRequest)
  IN IF ~built.threw /\ queryRequest._internalStartAfterDocId # << >>
     THEN [built EXCEPT !.startAfter = queryRequest._internalStartAfterDocId]
     ELSE built
\* The reads the backend is asked for once the query is compiled: the token's
\* document, by generateQueryRef and by query, and query.get()
Fetches(queryRequest) == IF queryRequest._internalStartAfterDocId # << >> THEN 3 ELSE 1

\* A variant that leaves out the documents the schema refuses
Page_ValidOnly(res, queryRequest, st) ==
  LET valid == SelectSeq(res.docs, LAMBDA id : ValidData(st[id].data))
  IN [threw |-> FALSE, error |-> "",
      items |-> [k \in DOMAIN valid |-> st[valid[k]].data],
      rawDocItems |-> valid,
      nextQuery |-> IF <<Len(valid)>> = queryRequest.limit
                    THEN <<[queryRequest EXCEPT !._internalStartAfterDocId =
                                                  <<valid[Len(valid)]>>]>>
                    ELSE << >>,
      warned |-> \E k \in DOMAIN res.docs : ~ValidData(st[res.docs[k]].data),
      fetches |-> Fetches(queryRequest)]

\* A variant that returns a nextQuery with every page that is not empty
Page_WhenNotEmpty(res, queryRequest, st) ==
  [threw |-> FALSE, error |-> "",
   items |-> [k \in DOMAIN res.docs |-> st[res.docs[k]].data],
   rawDocItems |-> res.docs,
   nextQuery |-> IF res.docs # << >> /\ queryRequest.limit # << >>
                 THEN <<[queryRequest EXCEPT !._internalStartAfterDocId =
                                               <<res.docs[Len(res.docs)]>>]>>
                 ELSE << >>,
   warned |-> \E k \in DOMAIN res.docs : ~ValidData(st[res.docs[k]].data),
   fetches |-> Fetches(queryRequest)]

\* A variant that takes the id of the first document of the page as the token
Page_TokenIsFirst(res, queryRequest, st) ==
  [threw |-> FALSE, error |-> "",
   items |-> [k \in DOMAIN res.docs |-> st[res.docs[k]].data],
   rawDocItems |-> res.docs,
   nextQuery |-> IF <<Len(res.docs)>> = queryRequest.limit
                 THEN <<[queryRequest EXCEPT !._internalStartAfterDocId = <<res.docs[1]>>]>>
                 ELSE << >>,
   warned |-> \E k \in DOMAIN res.docs : ~ValidData(st[res.docs[k]].data),
   fetches |-> Fetches(queryRequest)]

Page(res, queryRequest, st) ==
  [threw |-> FALSE, error |-> "",
   items |-> [k \in DOMAIN res.docs |-> st[res.docs[k]].data],
   rawDocItems |-> res.docs,
   nextQuery |-> IF <<Len(res.docs)>> = queryRequest.limit
                 THEN <<[queryRequest EXCEPT !._internalStartAfterDocId =
                                               <<res.docs[Len(res.docs)]>>]>>
                 ELSE << >>,
   warned |-> \E k \in DOMAIN res.docs : ~ValidData(st[res.docs[k]].data),
   fetches |-> Fetches(queryRequest)]

query(queryRequest, st) ==
  IF QueryOf(queryRequest).threw THEN Failed(QueryOf(queryRequest).error)
  ELSE LET res == RunQuery(QueryOf(queryRequest), st)
       IN IF res.threw THEN [Failed(res.error) EXCEPT !.fetches = Fetches(queryRequest)]
          ELSE IF res.docs = << >> /\ queryRequest.limit = <<0>>
          THEN [Failed(TypeError) EXCEPT !.fetches = Fetches(queryRequest)]
          ELSE Page(res, queryRequest, st)

\* -------------------------------------------------------- FirestoreLift: get
MissingIdsError == "Unable to find docs for the following ids"
\* doc["id"] of the document stored under a key: << >> when it has no id field
IdField(st, key) ==
  LET held == {e \in st[key].data : e.p = <<"id">>}
  IN IF held = {} THEN << >> ELSE <<(CHOOSE e \in held : TRUE).v.s>>
Arrangements(docs) ==
  {[k \in DOMAIN docs |-> docs[o[k]]] :
     o \in {f \in [DOMAIN docs -> DOMAIN docs] : \A i, j \in DOMAIN docs : f[i] = f[j] => i = j}}
\* docs.sort((a, b) => a["id"] > b["id"] ? -1 : 1): what the sort can give.
\* With an id in every document the greater id comes first.  A document
\* without id compares as 1 with everything, from either side: the comparator
\* is not consistent and the order the sort leaves is implementation-defined.
SortById(docs, st) ==
  IF \A k \in DOMAIN docs : IdField(st, docs[k]) # << >>
  THEN {s \in Arrangements(docs) :
          \A k \in 1..(Len(s) - 1) :
            RankOf(st, IdField(st, s[k])[1]) >= RankOf(st, IdField(st, s[k + 1])[1])}
  ELSE Arrangements(docs)
\* The documents fetched, in the order in which the fetches complete
Fetched(ids, order, st) ==
  SelectSeq([k \in DOMAIN order |-> ids[order[k]]], LAMBDA id : DocAt(st, id).exists)

\* A variant that leaves the missing ids out without a word
get_SilentlyFewer(ids, options, order, sorted, st) ==
  LET docs == Fetched(ids, order, st)
      schemaWarned == \E k \in DOMAIN docs : ~ValidData(DocAt(st, docs[k]).data)
  IN [pc |-> "returned", ids |-> ids, options |-> options, error |-> "",
      named |-> << >>, warned |-> FALSE, schemaWarned |-> schemaWarned,
      keys |-> sorted, docs |-> [k \in DOMAIN sorted |-> DocAt(st, sorted[k]).data]]

\* get(ids, options); order is the order in which the fetches complete,
\* sorted is what docs.sort made of the documents fetched
get(ids, options, order, sorted, st) ==
  LET done == [k \in DOMAIN order |-> ids[order[k]]]
      docs == Fetched(ids, order, st)
      warnings == SelectSeq(done, LAMBDA id : ~DocAt(st, id).exists)
      schemaWarned == \E k \in DOMAIN docs : ~ValidData(DocAt(st, docs[k]).data)
  IN IF warnings # << >> /\ ~options.ignoreMissingIds
     THEN [pc |-> "threw", ids |-> ids, options |-> options, error |-> MissingIdsError,
           named |-> warnings, warned |-> FALSE, schemaWarned |-> schemaWarned,
           keys |-> << >>, docs |-> << >>]
     ELSE [pc |-> "returned", ids |-> ids, options |-> options, error |-> "",
           named |-> warnings, warned |-> warnings # << >>, schemaWarned |-> schemaWarned,
           keys |-> sorted, docs |-> [k \in DOMAIN sorted |-> DocAt(st, sorted[k]).data]]

\* ------------------------------------------------- the read path: its inputs
AgePath == Object(<<Field("age", BooleanValue(TRUE))>>)
OrderBys == {<< >>, <<[pathObj |-> AgePath, dir |-> "asc"]>>, <<[pathObj |-> AgePath, dir |-> "desc"]>>}
\* no filter, a filter, and a clause whose leaf is a bare value (misc.ts 21-23)
Wheres == {<< >>, <<Object(<<Field("age", FilterValue(">=", 35))>>)>>,
           <<Object(<<Field("age", NumberValue(35))>>)>>}
Limits == {<< >>} \cup {<<n>> : n \in 1..MaxLimit}
\* The descriptions asked of a store of a few people
Queries ==
  {SimpleQuery(l, w, o, s, e) :
     l \in Limits, w \in Wheres, o \in OrderBys, s \in {<< >>, <<35>>}, e \in {<< >>, <<35>>}}
\* and of a store as large as the default cap
LargeQueries ==
  {SimpleQuery(l, << >>, << >>, << >>, << >>) : l \in {<< >>, <<defaultQueryLimit>>}}
\* Three people two of whom were written without an id field (an update of
\* a key that held no document creates such a document)
Unnamed ==
  [id \in DOMAIN People(3) |->
     IF id = PersonId(1) THEN People(3)[id]
     ELSE Present({e \in People(3)[id].data : e.p # <<"id">>})]
Stores == {People(n) : n \in 0..MaxPeople} \cup {People(defaultQueryLimit), Unnamed}
QueriesOf(st) == IF Cardinality(DOMAIN st) > MaxPeople + 1 THEN LargeQueries ELSE Queries

Ids == {PersonId(i) : i \in 1..3} \cup {"345343"}
IdLists == UNION {[1..n -> Ids] : n \in 0..MaxIds}
Orders(n) == {o \in [1..n -> 1..n] : \A i, j \in 1..n : o[i] = o[j] => i = j}
\* ------------------------------------------- the path resolver: its inputs
\* A shape-object, by the keys on the way to its leaf, the levels that have a
\* second key, and the leaf: the first key of every level leads on, the
\* second key of a level, where there is one, leads to a leaf of its own.
MaxDepth == 3
PathKeys == {"cat", "dog", "worm"}
Leaves == {NumberValue(5), StringValue("x"), BooleanValue(TRUE), FilterValue("==", 5)}
Chains == UNION {[1..n -> PathKeys] : n \in 0..MaxDepth}
Shapes ==
  UNION {[chain : {c}, extras : SUBSET (1..Len(c)), leaf : Leaves] : c \in Chains}
RECURSIVE Level(_, _)
Level(sh, i) ==
  <<IF i = Len(sh.chain) THEN Field(sh.chain[i], sh.leaf)
    ELSE Nested(sh.chain[i], Level(sh, i + 1))>>
    \o (IF i \in sh.extras THEN <<Nested("zebra", <<Field("ant", NumberValue(7))>>)>> ELSE << >>)
ShapeObject(sh) == IF sh.chain = << >> THEN Field("", sh.leaf) ELSE Object(Level(sh, 1))
NoShape == [chain |-> << >>, extras |-> {}, leaf |-> BooleanValue(TRUE)]
NoResolved == [pc |-> "idle", path |-> << >>, value |-> ObjectValue, warned |-> FALSE]

NoSub == [pc |-> "idle", query |-> << >>, error |-> "", queryRef |-> << >>, attached |-> 0]
NoGet ==
  [pc |-> "idle", ids |-> << >>, options |-> [ignoreMissingIds |-> FALSE], error |-> "",
   named |-> << >>, warned |-> FALSE, schemaWarned |-> FALSE, keys |-> << >>, docs |-> << >>]

\* ------------------------------------------------------------------- state
VARIABLES
  sources,                         \* what the callers of this run subscribe to
  firestoreSubscriptions,          \* the registry: fingerprint -> entry (a partial map)
  firestoreSubscriptionIdCounter,  \* next uniqueSubscriptionId
  stats,                           \* _stats
  listeners,                       \* backend: listener id -> [fp, attached, unsubCalls]
  handles,                         \* the subscribe calls made so far, by uniqueSubscriptionId
  received,                        \* per handle: the values its data callback was called with
  errReceived,                     \* per handle: the errors its error callback was called with
  console,                         \* whether console.warn was called; console.error calls
  uncaught,                        \* exceptions thrown out of a listener callback
  broadcast,                       \* per fingerprint: the values its snapshot handler cached,
                                   \*   each with the entry (by its listener) that cached it
  fan,                             \* the fan-out loop of the running listener callback
  nEvents,                         \* backend events delivered so far
  store,                           \* the backend's documents, by id
  held,                            \* the task descriptors the caller holds (its batch array)
  call,                            \* the add / update / setPath / delete / executeBatch call
                                   \*   made last: where it is and what it did
  config,                          \* the client's configuration
  generated,                       \* ids generated so far
  nCalls,                          \* executeBatch calls made so far
  asked,                           \* the query descriptions of the pagination walk so far
  pages,                           \* what query returned for each of them
  got,                             \* the get call made: its arguments and its outcome
  sub,                             \* the querySubscription call made: its outcome, and
                                   \*   the onSnapshot calls on the query it compiled
  shape,                           \* the shape-object a caller has at hand
  resolved                         \* what generateFirestorePathFromObject made of it

mutationVars == <<store, held, call, config, generated, nCalls>>
subscriptionVars ==
  <<sources, firestoreSubscriptions, firestoreSubscriptionIdCounter, listeners, handles,
    received, errReceived, console, uncaught, broadcast, fan, nEvents>>
pathVars == <<shape, resolved>>
readVars == <<asked, pages, got, sub, pathVars>>

vars == <<sources, firestoreSubscriptions, firestoreSubscriptionIdCounter, stats, listeners, handles,
          received, errReceived, console, uncaught, broadcast, fan, nEvents,
          store, held, call, config, generated, nCalls, asked, pages, got, sub, shape, resolved>>

\* The client's state as one value, so that a handler is a function of it
State ==
  [subs |-> firestoreSubscriptions, counter |-> firestoreSubscriptionIdCounter,
   stats |-> stats, listeners |-> listeners, handles |-> handles, received |-> received,
   errReceived |-> errReceived, console |-> console, uncaught |-> uncaught,
   broadcast |-> broadcast, fan |-> fan, nEvents |-> nEvents]

Becomes(S) ==
  /\ sources' = sources
  /\ firestoreSubscriptions' = S.subs
  /\ firestoreSubscriptionIdCounter' = S.counter
  /\ stats' = S.stats
  /\ listeners' = S.listeners
  /\ handles' = S.handles
  /\ received' = S.received
  /\ errReceived' = S.errReceived
  /\ console' = S.console
  /\ uncaught' = S.uncaught
  /\ broadcast' = S.broadcast
  /\ fan' = S.fan
  /\ nEvents' = S.nEvents
  /\ UNCHANGED <<mutationVars, readVars>>

\* No call made yet
NoCall ==
  [api |-> "none", returnBatchTask |-> FALSE, pc |-> "idle", before |-> InitialStore,
   given |-> << >>, tasks |-> << >>, ops |-> << >>, commits |-> 0, error |-> "", logged |-> 0,
   returned |-> << >>]

NoFan ==
  [active |-> FALSE, kind |-> "none", fp |-> md5(<<>>), obj |-> 0, listener |-> 0,
   value |-> 0, remaining |-> {}, atStart |-> {}, order |-> <<>>, removed |-> {},
   hadEntry |-> FALSE, logged |-> FALSE]

FreshClient ==
  /\ firestoreSubscriptions = << >>
  /\ firestoreSubscriptionIdCounter = 1
  /\ stats = [totalSubscriptionsOverTime |-> 0, activeSubscriptions |-> << >>, docsFetched |-> 0,
              docsWritten |-> 0]
  /\ listeners = << >>
  /\ handles = << >>
  /\ received = << >>
  /\ errReceived = << >>
  /\ console = [warned |-> FALSE, error |-> 0]
  /\ uncaught = 0
  /\ broadcast = [f \in Fingerprints |-> << >>]
  /\ fan = NoFan
  /\ nEvents = 0
  /\ held = << >>
  /\ call = NoCall
  /\ generated = 0
  /\ nCalls = 0
  /\ asked = << >>
  /\ pages = << >>
  /\ got = NoGet
  /\ sub = NoSub
  /\ resolved = NoResolved

Fresh == FreshClient /\ store = InitialStore /\ shape = NoShape

Init == sources = Sources /\ config = TestConfig /\ Fresh

\* ------------------------------------------------------- registry helpers
HasEntry(S, f) == f \in DOMAIN S.subs
Put(m, k, v) == [x \in DOMAIN m \cup {k} |-> IF x = k THEN v ELSE m[x]]
Delete(m, k) == [x \in DOMAIN m \ {k} |-> m[x]]
Registered(S, h) == HasEntry(S, S.handles[h].fp) /\ h \in S.subs[S.handles[h].fp].fns

\* A loop over a copy of the keys: a deleted property is still visited
ForInAfterDelete_KeysCopied(loop, obj, h) == loop

\* `delete obj[h]` seen by a for-in loop that is enumerating obj: a property
\* deleted before it is visited is not visited.
ForInAfterDelete(loop, obj, h) ==
  IF loop.active /\ loop.obj = obj /\ h \in loop.remaining
  THEN [loop EXCEPT !.remaining = @ \ {h}, !.removed = @ \cup {h}]
  ELSE loop

\* Variants of unregisterSubscription with a plausible slip
\* ... the listener is detached but the entry, with its cached value, is kept
unregisterSubscription_KeepsEntry(S, h, f) ==
  IF ~HasEntry(S, f) THEN [S EXCEPT !.console.warned = TRUE]
  ELSE
    LET e == S.subs[f]
        S1 == [S EXCEPT !.subs[f].fns = @ \ {h}, !.subs[f].errorFns = @ \ {h},
                        !.fan = IF h \in e.fns
                                THEN ForInAfterDelete(@, e.firestoreUnsubscribeFn, h) ELSE @]
    IN IF Cardinality(S1.subs[f].fns) <= 0 /\ S.listeners[e.firestoreUnsubscribeFn].attached
       THEN [S1 EXCEPT !.listeners[e.firestoreUnsubscribeFn].attached = FALSE,
                       !.listeners[e.firestoreUnsubscribeFn].unsubCalls = @ + 1]
       ELSE S1

\* ... the entry is deleted without calling firestoreUnsubscribeFn
unregisterSubscription_NoDetach(S, h, f) ==
  IF ~HasEntry(S, f) THEN [S EXCEPT !.console.warned = TRUE]
  ELSE
    LET e == S.subs[f]
        S1 == [S EXCEPT !.subs[f].fns = @ \ {h}, !.subs[f].errorFns = @ \ {h},
                        !.fan = IF h \in e.fns
                                THEN ForInAfterDelete(@, e.firestoreUnsubscribeFn, h) ELSE @]
    IN IF Cardinality(S1.subs[f].fns) <= 0 THEN [S1 EXCEPT !.subs = Delete(@, f)] ELSE S1

\* ... `<= 1` for `<= 0`: the entry is torn down while a subscriber is left
unregisterSubscription_OffByOne(S, h, f) ==
  IF ~HasEntry(S, f) THEN [S EXCEPT !.console.warned = TRUE]
  ELSE
    LET e == S.subs[f]
        S1 == [S EXCEPT !.subs[f].fns = @ \ {h}, !.subs[f].errorFns = @ \ {h},
                        !.fan = IF h \in e.fns
                                THEN ForInAfterDelete(@, e.firestoreUnsubscribeFn, h) ELSE @]
    IN IF Cardinality(S1.subs[f].fns) <= 1
       THEN [S1 EXCEPT !.listeners[e.firestoreUnsubscribeFn].attached = FALSE,
                       !.listeners[e.firestoreUnsubscribeFn].unsubCalls = @ + 1,
                       !.subs = Delete(@, f)]
       ELSE S1

\* ... the teardown test looks at the entry before the handle is removed, and
\* takes the caller for its last subscriber
unregisterSubscription_Blind(S, h, f) ==
  IF ~HasEntry(S, f) THEN [S EXCEPT !.console.warned = TRUE]
  ELSE
    LET e == S.subs[f]
        S1 == [S EXCEPT !.subs[f].fns = @ \ {h}, !.subs[f].errorFns = @ \ {h},
                        !.fan = IF h \in e.fns
                                THEN ForInAfterDelete(@, e.firestoreUnsubscribeFn, h) ELSE @]
    IN IF Cardinality(e.fns) <= 1
       THEN [S1 EXCEPT !.listeners[e.firestoreUnsubscribeFn].attached = FALSE,
                       !.listeners[e.firestoreUnsubscribeFn].unsubCalls = @ + 1,
                       !.subs = Delete(@, f)]
       ELSE S1

registerSubscription(S, h, f, hasErrorFn) ==
  IF ~HasEntry(S, f) THEN [S EXCEPT !.uncaught = @ + 1]
  ELSE [S EXCEPT !.subs[f].fns = @ \cup {h},
                 !.subs[f].errorFns = IF hasErrorFn THEN @ \cup {h} ELSE @]

unregisterSubscription(S, h, f) ==
  IF ~HasEntry(S, f) THEN [S EXCEPT !.console.warned = TRUE]
  ELSE
    LET e == S.subs[f]
        S1 == [S EXCEPT !.subs[f].fns = @ \ {h}, !.subs[f].errorFns = @ \ {h},
                        !.fan = IF h \in e.fns
                                THEN ForInAfterDelete(@, e.firestoreUnsubscribeFn, h) ELSE @]
    IN IF Cardinality(S1.subs[f].fns) <= 0
       THEN [S1 EXCEPT !.listeners[e.firestoreUnsubscribeFn].attached = FALSE,
                       !.listeners[e.firestoreUnsubscribeFn].unsubCalls = @ + 1,
                       !.subs = Delete(@, f)]
       ELSE S1

updateSubscriptionStats(S) ==
  [S EXCEPT !.stats.activeSubscriptions =
     [f \in DOMAIN S.subs |-> [subscriptionDetails |-> S.subs[f].subscriptionDetails,
                               subscriberCount |-> Cardinality(S.subs[f].fns)]]]

\* ref.onSnapshot(next, error): the backend attaches a listener and returns its
\* unsubscribe function (the listener's id)
onSnapshot(S, f) ==
  [S EXCEPT !.listeners = Append(@, [fp |-> f, attached |-> TRUE, unsubCalls |-> 0])]

\* A subscribe that forgets the late joiner's copy
ReplayCurrentValue_None(S, f) == << >>

\* `if (currentValue) fn(currentValue)`: the late joiner's copy of the cached value
ReplayCurrentValue(S, f) == S.subs[f].currentValue

\* subscribe(fn, errorFn) of the object docSubscription / querySubscription returned
subscribe(S, src, hasErrorFn) ==
  LET h == S.counter
      f == Fingerprint(src)
      fresh == ~HasEntry(S, f)
      replay == IF fresh THEN << >> ELSE ReplayCurrentValue(S, f)
      S1 == [S EXCEPT !.counter = h + 1]
      S2 == IF fresh
            THEN LET A == onSnapshot(S1, f)
                 IN [A EXCEPT !.subs = Put(@, f,
                       [fns |-> {}, errorFns |-> {},
                        firestoreUnsubscribeFn |-> Len(A.listeners),
                        subscriptionDetails |-> src, currentValue |-> << >>])]
            ELSE S1
      S3 == [S2 EXCEPT
               !.received = Append(@, replay),
               !.errReceived = Append(@, << >>),
               !.handles = Append(@,
                  [src |-> src, fp |-> f, hasErrorFn |-> hasErrorFn,
                   listener |-> S2.subs[f].firestoreUnsubscribeFn,
                   replay |-> replay, joinIdx |-> Len(S.broadcast[f]),
                   leftAt |-> 0 - 1, leftInFan |-> FALSE])]
      S4 == registerSubscription(S3, h, f, hasErrorFn)
      S5 == IF fresh THEN [S4 EXCEPT !.stats.totalSubscriptionsOverTime = @ + 1] ELSE S4
  IN updateSubscriptionStats(S5)

\* unsubscribe() of the handle subscribe returned
unsubscribe(S, h) ==
  LET f == S.handles[h].fp
      wasRegistered == Registered(S, h)
      inFan == wasRegistered /\ S.fan.active /\ S.fan.kind = "snapshot"
               /\ S.fan.obj = S.subs[f].firestoreUnsubscribeFn /\ h \in S.fan.remaining
      S1 == [S EXCEPT !.handles[h].leftAt = IF wasRegistered THEN Len(S.broadcast[f]) ELSE @,
                      !.handles[h].leftInFan = IF wasRegistered THEN inFan ELSE @]
  IN updateSubscriptionStats(unregisterSubscription(S1, h, f))

\* --------------------------------------------------- listener callbacks
\* Variants of the snapshot callback with a plausible slip
\* ... the value is fanned out but not cached
SnapshotHandler_NoCache(S, l, value) ==
  LET f == S.listeners[l].fp
      S1 == [S EXCEPT !.stats.docsFetched = @ + 1]
  IN IF ~HasEntry(S1, f)
     THEN [S1 EXCEPT !.uncaught = @ + 1,
                     !.fan = [NoFan EXCEPT !.kind = "snapshot", !.fp = f, !.listener = l,
                                           !.value = value]]
     ELSE [S1 EXCEPT !.broadcast[f] =
                        Append(@, [value |-> value, obj |-> S1.subs[f].firestoreUnsubscribeFn]),
                     !.fan = [active |-> S1.subs[f].fns # {}, kind |-> "snapshot", fp |-> f,
                              obj |-> S1.subs[f].firestoreUnsubscribeFn, listener |-> l,
                              value |-> value, remaining |-> S1.subs[f].fns,
                              atStart |-> S1.subs[f].fns, order |-> << >>, removed |-> {},
                              hadEntry |-> TRUE, logged |-> FALSE]]

\* ... `currentValue = currentValue || value`: only the first value is cached
SnapshotHandler_FirstValueKept(S, l, value) ==
  LET f == S.listeners[l].fp
      S1 == [S EXCEPT !.stats.docsFetched = @ + 1]
  IN IF ~HasEntry(S1, f)
     THEN [S1 EXCEPT !.uncaught = @ + 1,
                     !.fan = [NoFan EXCEPT !.kind = "snapshot", !.fp = f, !.listener = l,
                                           !.value = value]]
     ELSE [S1 EXCEPT !.subs[f].currentValue = IF @ = << >> THEN <<value>> ELSE @,
                     !.broadcast[f] =
                        Append(@, [value |-> value, obj |-> S1.subs[f].firestoreUnsubscribeFn]),
                     !.fan = [active |-> S1.subs[f].fns # {}, kind |-> "snapshot", fp |-> f,
                              obj |-> S1.subs[f].firestoreUnsubscribeFn, listener |-> l,
                              value |-> value, remaining |-> S1.subs[f].fns,
                              atStart |-> S1.subs[f].fns, order |-> << >>, removed |-> {},
                              hadEntry |-> TRUE, logged |-> FALSE]]

\* The snapshot callback given to onSnapshot by the subscribe that created
\* listener l: it closes over subscriptionId, not over the entry.
SnapshotHandler(S, l, value) ==
  LET f == S.listeners[l].fp
      S1 == [S EXCEPT !.stats.docsFetched = @ + 1]
  IN IF ~HasEntry(S1, f)
     THEN \* this.firestoreSubscriptions[subscriptionId] is undefined: TypeError
          [S1 EXCEPT !.uncaught = @ + 1,
                     !.fan = [NoFan EXCEPT !.kind = "snapshot", !.fp = f, !.listener = l,
                                           !.value = value]]
     ELSE [S1 EXCEPT !.subs[f].currentValue = <<value>>,
                     !.broadcast[f] =
                        Append(@, [value |-> value, obj |-> S1.subs[f].firestoreUnsubscribeFn]),
                     !.fan = [active |-> S1.subs[f].fns # {}, kind |-> "snapshot", fp |-> f,
                              obj |-> S1.subs[f].firestoreUnsubscribeFn, listener |-> l,
                              value |-> value, remaining |-> S1.subs[f].fns,
                              atStart |-> S1.subs[f].fns, order |-> << >>, removed |-> {},
                              hadEntry |-> TRUE, logged |-> FALSE]]

\* A variant of the error callback that gives the subscription up on an error
ErrorHandler_TearsDown(S, l, value) ==
  LET f == S.listeners[l].fp
  IN IF ~HasEntry(S, f)
     THEN [S EXCEPT !.uncaught = @ + 1,
                    !.fan = [NoFan EXCEPT !.kind = "error", !.fp = f, !.listener = l,
                                          !.value = value]]
     ELSE LET fns == S.subs[f].errorFns
          IN [S EXCEPT !.console.error = IF fns = {} THEN @ + 1 ELSE @,
                       !.listeners[S.subs[f].firestoreUnsubscribeFn].attached = FALSE,
                       !.subs = Delete(@, f),
                       !.fan = [active |-> fns # {}, kind |-> "error", fp |-> f,
                                obj |-> S.subs[f].firestoreUnsubscribeFn, listener |-> l,
                                value |-> value, remaining |-> fns, atStart |-> fns,
                                order |-> << >>, removed |-> {}, hadEntry |-> TRUE,
                                logged |-> fns = {}]]

\* The error callback given to onSnapshot
ErrorHandler(S, l, value) ==
  LET f == S.listeners[l].fp
  IN IF ~HasEntry(S, f)
     THEN \* Object.keys(undefined.errorFns): TypeError, nothing is logged
          [S EXCEPT !.uncaught = @ + 1,
                    !.fan = [NoFan EXCEPT !.kind = "error", !.fp = f, !.listener = l,
                                          !.value = value]]
     ELSE LET fns == S.subs[f].errorFns
          IN [S EXCEPT !.console.error = IF fns = {} THEN @ + 1 ELSE @,
                       !.fan = [active |-> fns # {}, kind |-> "error", fp |-> f,
                                obj |-> S.subs[f].firestoreUnsubscribeFn, listener |-> l,
                                value |-> value, remaining |-> fns, atStart |-> fns,
                                order |-> << >>, removed |-> {}, hadEntry |-> TRUE,
                                logged |-> fns = {}]]

\* for (let i in fns): integer-like keys are enumerated in ascending order
NextKey(loop) == CHOOSE k \in loop.remaining : \A j \in loop.remaining : k <= j

\* One iteration of the loop: fns[i](value)
InvokeNext(S) ==
  LET k == NextKey(S.fan)
      S1 == [S EXCEPT !.fan.remaining = @ \ {k}, !.fan.order = Append(@, k)]
  IN IF S.fan.kind = "snapshot"
     THEN [S1 EXCEPT !.received[k] = Append(@, S.fan.value)]
     ELSE [S1 EXCEPT !.errReceived[k] = Append(@, S.fan.value)]

LoopEnd(S) == IF S.fan.remaining = {} THEN [S EXCEPT !.fan.active = FALSE] ELSE S

\* ----------------------------------------------------------------- actions
Idle == ~fan.active

Subscribe(src, hasErrorFn) ==
  /\ Idle
  /\ firestoreSubscriptionIdCounter <= MaxHandles
  /\ Becomes(subscribe(State, src, hasErrorFn))

\* Any handle subscribe has returned can be unsubscribed, any number of times
Unsubscribe(h) ==
  /\ Idle
  /\ handles[h].listener # 0
  /\ Becomes(unsubscribe(State, h))

\* The backend calls listener l's snapshot callback.  A detached listener can
\* still do so: the event was in flight when the listener was detached.
BackendSnapshot(l) ==
  /\ Idle
  /\ nEvents < MaxEvents
  /\ Becomes(SnapshotHandler([State EXCEPT !.nEvents = @ + 1], l, nEvents + 1))

BackendError(l) ==
  /\ Idle
  /\ nEvents < MaxEvents
  /\ Becomes(ErrorHandler([State EXCEPT !.nEvents = @ + 1], l, nEvents + 1))

\* The loop calls the next callback, which returns without calling the client
CallbackReturns ==
  /\ fan.active
  /\ Becomes(LoopEnd(InvokeNext(State)))

\* ... which calls unsubscribe of a registered handle before it returns
CallbackUnsubscribes(h) ==
  /\ fan.active
  /\ Registered(State, h)
  /\ Becomes(LoopEnd(unsubscribe(InvokeNext(State), h)))

\* ... which calls subscribe, on the fingerprint being fanned out, before it returns
CallbackSubscribes(src, hasErrorFn) ==
  /\ fan.active
  /\ Fingerprint(src) = fan.fp
  /\ firestoreSubscriptionIdCounter <= MaxHandles
  /\ Becomes(LoopEnd(subscribe(InvokeNext(State), src, hasErrorFn)))

Next ==
  \/ \E src \in sources, e \in BOOLEAN : Subscribe(src, e)
  \/ \E h \in DOMAIN handles : Unsubscribe(h)
  \/ \E l \in DOMAIN listeners : BackendSnapshot(l)
  \/ \E l \in DOMAIN listeners : BackendError(l)
  \/ CallbackReturns
  \/ \E h \in DOMAIN handles : CallbackUnsubscribes(h)
  \/ \E src \in sources, e \in BOOLEAN : CallbackSubscribes(src, e)

Spec == Init /\ [][Next]_vars

\* A backend that calls the listener's callback inside onSnapshot, before
\* onSnapshot has returned the unsubscribe function.  The callback throws (see
\* the handlers); the backend either swallows the exception, and subscribe
\* goes on, or lets it through, and subscribe is left at line 216 / 150 with
\* the listener attached and the id consumed.
subscribeSync(S, src, hasErrorFn, kind, swallowed) ==
  LET h == S.counter
      f == Fingerprint(src)
      A == onSnapshot([S EXCEPT !.counter = h + 1, !.nEvents = @ + 1], f)
      l == Len(A.listeners)
      B == IF kind = "snapshot" THEN SnapshotHandler(A, l, S.nEvents + 1)
           ELSE ErrorHandler(A, l, S.nEvents + 1)
  IN IF swallowed
     THEN subscribe([B EXCEPT !.counter = h, !.listeners = S.listeners], src, hasErrorFn)
     ELSE [B EXCEPT !.received = Append(@, << >>),
                    !.errReceived = Append(@, << >>),
                    !.handles = Append(@,
                       [src |-> src, fp |-> f, hasErrorFn |-> hasErrorFn, listener |-> 0,
                        replay |-> << >>, joinIdx |-> Len(S.broadcast[f]),
                        leftAt |-> 0 - 1, leftInFan |-> FALSE])]

SubscribeSync(src, hasErrorFn, kind, swallowed) ==
  /\ Idle
  /\ firestoreSubscriptionIdCounter <= MaxHandles
  /\ nEvents < MaxEvents
  /\ ~HasEntry(State, Fingerprint(src))
  /\ Becomes(subscribeSync(State, src, hasErrorFn, kind, swallowed))

NextSync ==
  \/ Next
  \/ \E src \in sources, e \in BOOLEAN, kind \in {"snapshot", "error"}, sw \in BOOLEAN :
        SubscribeSync(src, e, kind, sw)

SpecSync == Init /\ [][NextSync]_vars

\* Callers that subscribe to two structurally equal query descriptions
InitEqualQueries == sources \in EqualPairs /\ config = TestConfig /\ Fresh

SpecEqualQueries == InitEqualQueries /\ [][Next]_vars

\* ------------------------------------------------- mutations: the actions
\* A call of add / update / setPath / delete that ended where the method did:
\* it threw, or it returned the task it built
Ended(request, returnBatchTask, m) ==
  [NoCall EXCEPT !.api = request.kind, !.returnBatchTask = returnBatchTask,
                 !.before = store,
                 !.pc = IF m.threw THEN "threw" ELSE "returned",
                 !.error = m.error,
                 !.returned = IF m.threw THEN << >> ELSE <<m.task>>]

\* A call that went into executeBatch(b)
Executing(api, b) ==
  LET x == executeBatch(b)
  IN [api |-> api, returnBatchTask |-> FALSE, pc |-> x.pc, before |-> store,
      given |-> x.given, tasks |-> x.tasks, ops |-> x.ops, commits |-> x.commits,
      error |-> x.error, logged |-> x.logged, returned |-> x.returned]

Awaiting == call.pc = "committing"

\* A variant that ignores the flag and executes the task it built
ReturnBatchTask_Executes(request) ==
  LET m == Method(request, config, generated)
  IN /\ ~Awaiting
     /\ Len(held) < MaxTasks
     /\ generated' = m.generated
     /\ call' = IF m.threw THEN Ended(request, TRUE, m)
                ELSE [Executing(request.kind, <<m.task>>) EXCEPT !.returnBatchTask = TRUE]
     /\ held' = IF m.threw THEN held ELSE Append(held, m.task)
     /\ stats' = IF m.threw THEN stats ELSE [stats EXCEPT !.docsWritten = @ + 1]
     /\ UNCHANGED <<store, config, nCalls>>
     /\ UNCHANGED <<subscriptionVars, readVars>>

\* add / update / setPath / delete (request, {returnBatchTask: true}); the
\* caller pushes the task it gets onto its array
ReturnBatchTask(request) ==
  LET m == Method(request, config, generated)
  IN /\ ~Awaiting
     /\ Len(held) < MaxTasks
     /\ generated' = m.generated
     /\ call' = Ended(request, TRUE, m)
     /\ held' = IF m.threw THEN held ELSE Append(held, m.task)
     /\ stats' = IF m.threw THEN stats ELSE [stats EXCEPT !.docsWritten = @ + 1]
     /\ UNCHANGED <<store, config, nCalls>>
     /\ UNCHANGED <<subscriptionVars, readVars>>

\* add / update / setPath / delete (request): executeBatch([task])
Direct(request) ==
  LET m == Method(request, config, generated)
  IN /\ ~Awaiting
     /\ nCalls < MaxCalls
     /\ generated' = m.generated
     /\ call' = IF m.threw THEN Ended(request, FALSE, m) ELSE Executing(request.kind, <<m.task>>)
     /\ nCalls' = IF m.threw THEN nCalls ELSE nCalls + 1
     /\ stats' = IF m.threw THEN stats ELSE [stats EXCEPT !.docsWritten = @ + 1]
     /\ UNCHANGED <<store, held, config>>
     /\ UNCHANGED <<subscriptionVars, readVars>>

\* The caller pushes a descriptor it wrote itself onto its array
PushTask(t) ==
  /\ ~Awaiting
  /\ Len(held) < MaxTasks
  /\ held' = Append(held, t)
  /\ UNCHANGED <<store, call, config, generated, nCalls, stats>>
  /\ UNCHANGED <<subscriptionVars, readVars>>

\* batchRunner.executeBatch(held): the tasks are the caller's objects, so what
\* the loop does to them is done to the caller's array
ExecuteBatch ==
  /\ ~Awaiting
  /\ nCalls < MaxCalls
  /\ call' = Executing("executeBatch", held)
  /\ held' = call'.tasks
  /\ nCalls' = nCalls + 1
  /\ UNCHANGED <<store, config, generated, stats>>
  /\ UNCHANGED <<subscriptionVars, readVars>>

\* The backend commits the batch: every operation, in order
CommitResolves ==
  /\ Awaiting
  /\ AllApply(store, call.ops)
  /\ store' = ApplyAll(store, call.ops)
  /\ call' = commitResolved(call)
  /\ UNCHANGED <<held, config, generated, nCalls, stats>>
  /\ UNCHANGED <<subscriptionVars, readVars>>

\* The backend rejects the batch: no operation takes effect
CommitRejects ==
  /\ Awaiting
  /\ call' = commitRejected(call)
  /\ UNCHANGED <<store, held, config, generated, nCalls, stats>>
  /\ UNCHANGED <<subscriptionVars, readVars>>

NextMutations ==
  \/ \E r \in Requests : ReturnBatchTask(r)
  \/ \E r \in Requests : Direct(r)
  \/ \E t \in HandMade : PushTask(t)
  \/ ExecuteBatch
  \/ CommitResolves
  \/ CommitRejects

InitMutations == sources = Sources /\ config \in Configs /\ Fresh

SpecMutations == InitMutations /\ [][NextMutations]_vars

\* ------------------------------------------------------ reads: query and get
\* A run reads the store once: one walk along nextQuery, one get, or one
\* querySubscription.
\* query(queryRequest), the first of a walk
Query(q) ==
  LET r == query(q, store)
  IN /\ asked = << >> /\ got.pc = "idle" /\ sub.pc = "idle"
     /\ q \in QueriesOf(store)
     /\ asked' = <<q>>
     /\ pages' = <<r>>
     /\ stats' = IF r.threw THEN stats ELSE [stats EXCEPT !.docsFetched = @ + Len(r.items)]
     /\ UNCHANGED <<got, sub, pathVars, subscriptionVars, mutationVars>>

\* The caller re-queries with the nextQuery of the page it got last
NextPage ==
  /\ pages # << >>
  /\ pages[Len(pages)].nextQuery # << >>
  /\ Len(asked) < MaxQueries
  /\ LET q == pages[Len(pages)].nextQuery[1]
         r == query(q, store)
     IN /\ asked' = Append(asked, q)
        /\ pages' = Append(pages, r)
        /\ stats' = IF r.threw THEN stats ELSE [stats EXCEPT !.docsFetched = @ + Len(r.items)]
  /\ UNCHANGED <<got, sub, pathVars, subscriptionVars, mutationVars>>

\* get(ids, options), its fetches completing in some order and its sort
\* leaving one of the orders it can leave
GetCall(ids, options, order) ==
  \E sorted \in SortById(Fetched(ids, order, store), store) :
    LET r == get(ids, options, order, sorted, store)
    IN /\ got.pc = "idle" /\ asked = << >> /\ sub.pc = "idle"
       /\ got' = r
       /\ stats' = IF r.pc = "threw" THEN stats
                   ELSE [stats EXCEPT !.docsFetched = @ + Len(r.docs)]
       /\ UNCHANGED <<asked, pages, sub, pathVars, subscriptionVars, mutationVars>>

\* querySubscription(query): the description is compiled when the
\* subscription object is made
QuerySubscription(q) ==
  LET ref == generateQueryRef(q)
  IN /\ sub.pc = "idle" /\ asked = << >> /\ got.pc = "idle"
     /\ q \in QueriesOf(store)
     /\ sub' = IF ref.threw
               THEN [NoSub EXCEPT !.pc = "threw", !.query = <<q>>, !.error = ref.error]
               ELSE [NoSub EXCEPT !.pc = "returned", !.query = <<q>>, !.queryRef = <<ref>>]
     /\ UNCHANGED <<asked, pages, got, pathVars, stats, subscriptionVars, mutationVars>>

\* subscribe(fn) on the object querySubscription returned, the first for its
\* fingerprint: queryRef.onSnapshot(...)
SubscribeToQuery ==
  /\ sub.pc = "returned" /\ sub.attached = 0
  /\ sub' = [sub EXCEPT !.attached = 1]
  /\ UNCHANGED <<asked, pages, got, pathVars, stats, subscriptionVars, mutationVars>>

NextQueries ==
  \/ \E q \in Queries \cup LargeQueries : Query(q)
  \/ NextPage
  \/ \E q \in Queries \cup LargeQueries : QuerySubscription(q)
  \/ SubscribeToQuery
  \/ \E ids \in IdLists, ignore \in BOOLEAN :
       \E order \in Orders(Len(ids)) : GetCall(ids, [ignoreMissingIds |-> ignore], order)

InitQueries ==
  sources = Sources /\ config = TestConfig /\ FreshClient /\ store \in Stores /\ shape = NoShape

SpecQueries == InitQueries /\ [][NextQueries]_vars

\* ------------------------------------------------------- the path resolver
\* generateFirestorePathFromObject(shape)
Resolve ==
  LET r == generateFirestorePathFromObject(ShapeObject(shape), << >>)
  IN /\ resolved.pc = "idle"
     /\ resolved' = [pc |-> IF r.threw THEN "threw" ELSE "returned", path |-> r.path,
                     value |-> r.value, warned |-> r.warned]
     /\ UNCHANGED <<shape, asked, pages, got, sub, stats, subscriptionVars, mutationVars>>

NextPaths == Resolve

InitPaths ==
  sources = Sources /\ config = TestConfig /\ FreshClient /\ store = InitialStore
    /\ shape \in Shapes

SpecPaths == InitPaths /\ [][NextPaths]_vars

\* ------------------------------------------------------------------ claims
LiveListeners(f) == {l \in DOMAIN listeners : listeners[l].fp = f /\ listeners[l].attached}
IsRegistered(h) == Registered(State, h)
EntryOf(h) == firestoreSubscriptions[handles[h].fp]

\* C1: every fingerprint has at most one attached backend listener, and it has
\* one exactly when the registry holds an entry for it with at least one
\* subscriber callback (that listener being the one the entry owns).
C1_OneLiveListenerPerFingerprint ==
  \A f \in Fingerprints :
    /\ Cardinality(LiveListeners(f)) <= 1
    /\ LiveListeners(f) # {}
         <=> (f \in DOMAIN firestoreSubscriptions /\ firestoreSubscriptions[f].fns # {})
    /\ f \in DOMAIN firestoreSubscriptions
         => LiveListeners(f) = {firestoreSubscriptions[f].firestoreUnsubscribeFn}

\* a fingerprint torn down and subscribed again: its first listener is
\* detached, its second attached and owned by the entry
C1_Witness ==
  \E l1, l2 \in DOMAIN listeners :
    /\ l1 # l2 /\ listeners[l1].fp = listeners[l2].fp
    /\ ~listeners[l1].attached /\ listeners[l2].attached
    /\ listeners[l2].fp \in DOMAIN firestoreSubscriptions

\* C2: two subscribers registered on one fingerprint share one listener
\* registration; when a subscriber leaves an entry of two, the entry stays and
\* its listener stays attached; when the last subscriber leaves, the listener's
\* unsubscribe function has been called exactly once and the entry is deleted.
C2_TwoSubscribers ==
  \A f \in DOMAIN firestoreSubscriptions :
    LET e == firestoreSubscriptions[f]
    IN Cardinality(e.fns) >= 2 =>
         /\ \A h \in e.fns : handles[h].listener = e.firestoreUnsubscribeFn
         /\ listeners[e.firestoreUnsubscribeFn].attached
         /\ listeners[e.firestoreUnsubscribeFn].unsubCalls = 0
         /\ Cardinality({l \in DOMAIN listeners : listeners[l].fp = f /\ l >= e.firestoreUnsubscribeFn}) = 1

C2_Leaving ==
  \A h \in DOMAIN handles :
    (IsRegistered(h) /\ ~Registered(State', h)) =>
      LET f == handles[h].fp
          e == firestoreSubscriptions[f]
          l == e.firestoreUnsubscribeFn
      IN IF Cardinality(e.fns) >= 2
         THEN /\ f \in DOMAIN firestoreSubscriptions'
              /\ firestoreSubscriptions'[f].fns = e.fns \ {h}
              /\ firestoreSubscriptions'[f].firestoreUnsubscribeFn = l
              /\ listeners'[l].attached /\ listeners'[l].unsubCalls = 0
         ELSE /\ f \notin DOMAIN firestoreSubscriptions'
              /\ ~listeners'[l].attached /\ listeners'[l].unsubCalls = 1

C2_SharedListenerLifecycle == [](C2_TwoSubscribers) /\ [][C2_Leaving]_vars

\* both subscribers of one listener have left: it was detached by one call
C2_Witness ==
  \E h1, h2 \in DOMAIN handles :
    /\ h1 # h2 /\ handles[h1].listener = handles[h2].listener
    /\ ~IsRegistered(h1) /\ ~IsRegistered(h2)
    /\ ~listeners[handles[h1].listener].attached
    /\ listeners[handles[h1].listener].unsubCalls = 1

\* C3: a subscribe on a fingerprint whose entry holds a cached value calls the
\* new callback inside subscribe, exactly once, with that value (so before
\* any later event), and calls no callback of a subscriber that was there.
C3_Subscribing ==
  firestoreSubscriptionIdCounter' = firestoreSubscriptionIdCounter + 1 =>
    LET h == firestoreSubscriptionIdCounter
        f == handles'[h].fp
    IN /\ (f \in DOMAIN firestoreSubscriptions /\ firestoreSubscriptions[f].currentValue # << >>)
            => /\ received'[h] = firestoreSubscriptions[f].currentValue
               /\ Len(received'[h]) = 1
       /\ \A k \in DOMAIN handles :
            LET byLoop == IF fan.active /\ k = NextKey(fan) THEN 1 ELSE 0
            IN Len(received'[k]) + Len(errReceived'[k])
                 = Len(received[k]) + Len(errReceived[k]) + byLoop

C3_LateJoinerReplay == [][C3_Subscribing]_vars

\* a late joiner holds the cached value, next to a subscriber that got it from
\* the backend event
C3_Witness ==
  \E h, k \in DOMAIN handles :
    /\ h # k /\ handles[h].fp = handles[k].fp /\ IsRegistered(h) /\ IsRegistered(k)
    /\ handles[h].replay # << >> /\ received[h] = handles[h].replay
    /\ handles[k].replay = << >> /\ received[k] = received[h]

\* How many times handle h's data / error callback was called with value v
TimesReceived(h, v) == Cardinality({i \in DOMAIN received[h] : received[h][i] = v})
TimesErrReceived(h, v) == Cardinality({i \in DOMAIN errReceived[h] : errReceived[h][i] = v})
\* ... by the listener callback, the copy subscribe itself hands out apart
TimesFannedOut(h, v) == TimesReceived(h, v) - (IF handles[h].replay = <<v>> THEN 1 ELSE 0)
SnapshotHandled == fan.kind = "snapshot" /\ fan.hadEntry
CachedByLastSnapshot ==
  /\ broadcast[fan.fp] # << >>
  /\ broadcast[fan.fp][Len(broadcast[fan.fp])] = [value |-> fan.value, obj |-> fan.obj]
  /\ (fan.fp \in DOMAIN firestoreSubscriptions
        /\ firestoreSubscriptions[fan.fp].firestoreUnsubscribeFn = fan.obj)
       => firestoreSubscriptions[fan.fp].currentValue = <<fan.value>>

\* C4 as stated: once the snapshot callback has run for an event (the entry
\* being there), the value is the entry's cached value, every callback that
\* was registered for the fingerprint when the event arrived has been called
\* exactly once with it, and no other callback has been called with it.
C4_EveryRegisteredCallbackOnce ==
  (SnapshotHandled /\ ~fan.active) =>
    /\ CachedByLastSnapshot
    /\ \A h \in DOMAIN handles :
         TimesFannedOut(h, fan.value) = (IF h \in fan.atStart THEN 1 ELSE 0)

\* C4 amended: ... every callback registered for the fingerprint when the event
\* arrived is called exactly once with the value unless it was unsubscribed,
\* by a callback called before it in the same fan-out, before its turn: then it
\* is not called.  Callbacks of other fingerprints are not called.
C4_RegisteredAndNotRemovedOnce ==
  SnapshotHandled =>
    /\ CachedByLastSnapshot
    /\ \A h \in DOMAIN handles :
         TimesFannedOut(h, fan.value)
           = (IF h \in fan.atStart /\ h \notin fan.removed /\ h \notin fan.remaining
              THEN 1 ELSE 0)
    /\ fan.atStart \subseteq {h \in DOMAIN handles : handles[h].fp = fan.fp}
    /\ ~fan.active => fan.remaining = {}

\* an event fanned out to two subscribers of one fingerprint, both called
C4_Witness ==
  /\ SnapshotHandled /\ ~fan.active
  /\ Cardinality(fan.atStart) = 2 /\ fan.removed = {}
  /\ \A h \in fan.atStart : TimesReceived(h, fan.value) = 1

\* C5: once a handle's unsubscribe has returned, neither its data callback nor
\* its error callback is called again, whatever happens next.
C5_Left ==
  \A h \in DOMAIN handles :
    handles[h].leftAt >= 0 => (received'[h] = received[h] /\ errReceived'[h] = errReceived[h])

C5_NoCallAfterUnsubscribe == [][C5_Left]_vars

\* a handle unsubscribed by another subscriber's callback while the event was
\* still to reach it, and a later event broadcast on its fingerprint
C5_Witness ==
  \E h \in DOMAIN handles :
    /\ handles[h].leftInFan /\ ~fan.active
    /\ Len(broadcast[handles[h].fp]) > handles[h].leftAt

\* What handle h has seen, against the events of its fingerprint
Vals(s) == [i \in DOMAIN s |-> s[i].value]
CachedAtJoin(h) ==
  LET b == broadcast[handles[h].fp]
      j == handles[h].joinIdx
  IN IF j > 0 /\ b[j].obj = handles[h].listener THEN <<b[j].value>> ELSE << >>
Reached(h) == Len(received[h]) - Len(handles[h].replay)
InArrivalOrder(h) ==
  /\ handles[h].replay = CachedAtJoin(h)
  /\ Reached(h) >= 0
  /\ received[h] = handles[h].replay
                     \o Vals(SubSeq(broadcast[handles[h].fp], handles[h].joinIdx + 1,
                                    handles[h].joinIdx + Reached(h)))
Pending(h) == fan.active /\ fan.kind = "snapshot" /\ h \in fan.remaining
Returned == {h \in DOMAIN handles : handles[h].listener # 0}

\* C6 as stated: what a subscriber has seen when it unsubscribes is the value
\* cached when it joined (if any), then every event that arrived on its
\* fingerprint since, in arrival order.
C6_EveryEventBetweenJoinAndLeave ==
  \A h \in Returned :
    /\ InArrivalOrder(h)
    /\ ~IsRegistered(h) => handles[h].joinIdx + Reached(h) = handles[h].leftAt

\* C6 amended: ... then every later event in arrival order, without gap or
\* repeat, up to the last event that arrived before it unsubscribed; that last
\* event is left out when the subscriber was unsubscribed by a callback called
\* before its own in that event's fan-out.
C6_EveryEventReachedInOrder ==
  \A h \in Returned :
    /\ InArrivalOrder(h)
    /\ handles[h].joinIdx + Reached(h)
         = (IF IsRegistered(h)
            THEN Len(broadcast[handles[h].fp]) - (IF Pending(h) THEN 1 ELSE 0)
            ELSE handles[h].leftAt - (IF handles[h].leftInFan THEN 1 ELSE 0))

\* a late joiner that got the cached value and then the next event
C6_Witness ==
  \E h \in DOMAIN handles :
    /\ handles[h].replay # << >> /\ Len(received[h]) = 2 /\ ~fan.active

\* C7: no snapshot or error is handled while the registry has no entry for its
\* fingerprint, and no fingerprint has two attached listeners.
C7_NoEventBeforeTheEntry ==
  /\ fan.kind # "none" => fan.hadEntry
  /\ \A f \in Fingerprints : Cardinality(LiveListeners(f)) <= 1

\* C8: subscriptions to structurally equal query descriptions have the same
\* fingerprint, and so share one registry entry and one backend listener.
C8_EqualQueriesShareAListener ==
  \A h1, h2 \in DOMAIN handles :
    StructurallyEqual(handles[h1].src.query, handles[h2].src.query) =>
      /\ handles[h1].fp = handles[h2].fp
      /\ (IsRegistered(h1) /\ IsRegistered(h2)) => handles[h1].listener = handles[h2].listener

\* C9: the unsubscribe function of a handle that is not registered (called
\* again, or after the entry was torn down, or after the fingerprint was
\* subscribed again) removes nobody's callbacks, detaches no listener, throws
\* nothing and leaves the registry and its statistics unchanged.
C9_Stale ==
  \A h \in DOMAIN handles :
    (~IsRegistered(h) /\ Unsubscribe(h)) =>
      /\ firestoreSubscriptions' = firestoreSubscriptions
      /\ listeners' = listeners
      /\ stats' = stats
      /\ uncaught' = uncaught
      /\ received' = received /\ errReceived' = errReceived

C9_UnsubscribeIdempotent == [][C9_Stale]_vars

\* unsubscribe has been called for a fingerprint without entry (it warned),
\* a handle has left, and another subscriber is registered
C9_Witness ==
  /\ console.warned
  /\ \E h, k \in DOMAIN handles : ~IsRegistered(h) /\ handles[h].leftAt >= 0 /\ IsRegistered(k)

\* C10: once the error callback has run for an error, every error callback
\* registered for the fingerprint has been called exactly once with it; the
\* error was logged if none was registered; no other error callback and no data
\* callback has been called with it.
C10_ErrorToEveryErrorCallback ==
  (fan.kind = "error" /\ ~fan.active) =>
    /\ \A h \in DOMAIN handles :
         /\ TimesErrReceived(h, fan.value) = (IF h \in fan.atStart THEN 1 ELSE 0)
         /\ TimesReceived(h, fan.value) = 0
    /\ fan.atStart = {} => fan.logged

\* C11: the error callback of a listener tears nothing down: the step in which
\* it runs, and the steps in which the error callbacks it calls return, leave
\* the registry (entries, fns, errorFns, cached values, listener handles) and
\* the backend listeners as they were; and a snapshot that arrives on a
\* fingerprint after an error has been handled for it is still called on every
\* subscriber then registered (and not removed during that fan-out).
C11_ErrorHandled ==
  ((\E l \in DOMAIN listeners : BackendError(l))
     \/ (fan.active /\ fan.kind = "error" /\ CallbackReturns))
    => /\ firestoreSubscriptions' = firestoreSubscriptions
       /\ listeners' = listeners
       /\ stats' = stats

C11_ErrorBefore(f) ==
  \/ console.error > 0
  \/ \E h \in DOMAIN handles : handles[h].fp = f /\ errReceived[h] # << >>

C11_StillDelivered ==
  (SnapshotHandled /\ ~fan.active /\ C11_ErrorBefore(fan.fp)) =>
    \A h \in fan.atStart \ fan.removed : TimesFannedOut(h, fan.value) = 1

C11_ErrorDoesNotTearDown == [][C11_ErrorHandled]_vars /\ [](C11_StillDelivered)

\* a subscriber whose error callback got an error, and whose data callback got
\* the snapshot that came after it, from the same listener
C11_Witness ==
  \E h \in DOMAIN handles :
    /\ IsRegistered(h) /\ ~fan.active
    /\ Len(errReceived[h]) = 1 /\ Len(received[h]) = 1
    /\ errReceived[h][1] < received[h][1]
    /\ handles[h].replay = << >>
    /\ listeners[handles[h].listener].unsubCalls = 0

\* ------------------------------------------------------ claims: mutations
\* The last call went into executeBatch
InExecuteBatch == call.api = "executeBatch" \/ call.given # << >>
RECURSIVE NonEmpty(_)
NonEmpty(b) ==
  IF b = << >> THEN << >>
  ELSE IF Head(b).type = "empty" THEN NonEmpty(Tail(b)) ELSE <<Head(b)>> \o NonEmpty(Tail(b))
AllCarryAnId(b) == \A i \in DOMAIN b : b[i].type # "empty" => ~Falsy(b[i].id)
\* The backend write a task of each kind stands for
WriteOf(type) ==
  CASE type = "add" -> "set"
    [] type = "update" -> "set merge"
    [] type = "setPath" -> "update"
    [] type = "delete" -> "delete"
    [] OTHER -> "any"
WriteIs(op) == IF op.method = "set" /\ op.merge THEN "set merge" ELSE op.method
\* One operation per non-empty task, in list order, on the task's document
OneOperationPerTask ==
  LET tasks == NonEmpty(call.given)
  IN /\ Len(call.ops) = Len(tasks)
     /\ \A i \in DOMAIN tasks :
          /\ call.ops[i].id = tasks[i].id
          /\ WriteOf(tasks[i].type) \in {"any", WriteIs(call.ops[i])}
\* Every operation of the call has taken effect, or none has
AllOrNothing ==
  /\ call.pc = "returned" => store = ApplyAll(call.before, call.ops)
  /\ call.pc \in {"committing", "threw"} => store = call.before

LacksId(t) == t.type # "empty" /\ t.id \in {UndefinedId, ""}
MalformedAt == {i \in DOMAIN call.given : LacksId(call.given[i])}

\* C13: when a non-empty task of the list passed to executeBatch lacks an id,
\* wherever it is in the list, the call throws, commit is never invoked and
\* the store is as it was before the call.
C13_IdlessTaskNeverCommits ==
  (InExecuteBatch /\ MalformedAt # {}) =>
    /\ call.pc = "threw"
    /\ call.commits = 0
    /\ store = call.before

\* a list whose second task lacks an id, after a well-formed first one: thrown
C13_Witness ==
  /\ call.api = "executeBatch" /\ call.pc = "threw"
  /\ MalformedAt = {2}
  /\ call.given[1].type # "empty"
  /\ call.error = LacksAnId

\* C14 as stated: when executeBatch fails on a task that lacks an id, no
\* operation has been enqueued into the batch for any task of the list, the
\* tasks before the malformed one included.
C14_NothingEnqueuedBeforeFailure ==
  (InExecuteBatch /\ call.pc = "threw" /\ call.error = LacksAnId) => call.ops = << >>

\* The call has ended in one of its two outcomes: the empty task returned
\* after a commit that took effect, or an error thrown and nothing returned
C15_Outcome ==
  /\ call.pc \in {"committing", "returned", "threw"}
  /\ call.pc = "returned" =>
       /\ call.returned = <<BatchTaskEmpty>>
       /\ BatchTaskEmpty.type = "empty" /\ BatchTaskEmpty.id = ""
       /\ call.commits = 1
       /\ call.error = ""
       /\ store = ApplyAll(call.before, call.ops)
  /\ call.pc = "threw" => (call.returned = << >> /\ call.error # "")
  /\ call.pc = "committing" => call.returned = << >>
\* The commit awaited is rejected: its error is what the call throws
C15_Rethrown ==
  (Awaiting /\ call'.pc = "threw") =>
    /\ call'.error = CommitError
    /\ call'.returned = << >>
    /\ store' = call.before

\* C15: executeBatch, and add / update / setPath / delete without
\* returnBatchTask, either return the empty task (type empty, id "") after the
\* commit succeeded or throw; a commit failure is rethrown unmodified and no
\* value is returned.
C15_ReturnsEmptyTaskOrThrows ==
  []((call.api # "none" /\ ~call.returnBatchTask) => C15_Outcome) /\ [][C15_Rethrown]_vars

\* update called without returnBatchTask, its commit rejected by the backend
C15_Witness ==
  /\ call.api = "update" /\ ~call.returnBatchTask
  /\ call.commits = 1
  /\ call.pc = "threw" /\ call.error = CommitError

Kinds == {"add", "update", "setPath", "delete"}
\* The id the descriptor of a request carries
IdOf(r) ==
  IF r.kind # "add" THEN r.id
  ELSE IF ~Falsy(ItemId(r.item)) THEN ItemId(r.item)
  ELSE IF config.addIdPropertyByDefault THEN generateId(config, generated + 1)
  ELSE UndefinedId
\* The last call had returnBatchTask set: nothing enqueued, nothing committed,
\* the store as before, and what it returned is a descriptor of its kind
C16_Deferred ==
  call.returnBatchTask =>
    /\ call.ops = << >> /\ call.commits = 0 /\ call.given = << >>
    /\ store = call.before
    /\ call.pc \in {"returned", "threw"}
    /\ call.pc = "returned" =>
         /\ Len(call.returned) = 1
         /\ call.returned[1].type = call.api /\ call.api \in Kinds
         /\ call.returned[1].collection = "person"
\* A call with returnBatchTask set leaves the store alone and hands the caller
\* the descriptor: the kind, the collection and the id of the request
C16_Construction ==
  \A r \in Requests :
    ReturnBatchTask(r) =>
      /\ store' = store
      /\ call'.pc = "returned" =>
           /\ call'.returned[1].type = r.kind
           /\ call'.returned[1].collection = "person"
           /\ call'.returned[1].id = IdOf(r)
           /\ held' = Append(held, call'.returned[1])
\* The store is written only by the commit of an executeBatch call
C16_WrittenByCommit ==
  store' # store => (Awaiting /\ call.commits = 1 /\ call.ops # << >> /\ ~call.returnBatchTask)
\* Without returnBatchTask: executeBatch of a list of exactly the one task
C16_OneTask ==
  \A r \in Requests :
    (Direct(r) /\ call'.pc # "threw") =>
      /\ call'.given = <<Task(r.kind, IdOf(r), call'.given[1].doc, r.pathObj, r.value)>>
      /\ Len(call'.ops) = 1
      /\ call'.commits = 1

CommittedOne(type) ==
  /\ InExecuteBatch /\ call.pc = "returned"
  /\ Len(call.given) = 1 /\ call.given[1].type = type
\* The document of the task before the call and after the commit
Was == DocAt(call.before, call.given[1].id).data
Now == DocAt(store, call.given[1].id).data

\* C17: after the commit of an update task, a field the payload marks with
\* the delete sentinel is gone and only that field: every stored field the
\* payload does not name (siblings under the same nested object included) has
\* the value it had, and every non-sentinel value of the payload is stored.
C17_UpdateDeletesOnlyTheMarkedField ==
  CommittedOne("update") =>
    LET payload == Flatten(call.given[1].doc, << >>)
    IN /\ \A l \in payload : l.v \in {MagicDeleteString, FieldValueDelete} => Under(Now, l.p) = {}
       /\ \A l \in payload :
            (l.v \notin {MagicDeleteString, MagicIncrementString} /\ ~IsDirective(l.v)) => l \in Now
       /\ \A e \in Was : (\A l \in payload : ~Clash(e, l)) => e \in Now
       /\ \A e \in Now : e \in Was \/ \E l \in payload : l.p = e.p

\* update("p1", {favFoods: {american: DELETE}}) committed: favFoods.american
\* is gone, favFoods.asian and age are what they were
C17_Witness ==
  /\ CommittedOne("update")
  /\ call.given[1].doc = DeleteAmerican
  /\ Under(Was, <<"favFoods", "american">>) # {}
  /\ Under(Now, <<"favFoods", "american">>) = {}
  /\ Under(Now, <<"favFoods", "asian">>) = Under(Was, <<"favFoods", "asian">>)
  /\ Under(Now, <<"favFoods", "asian">>) # {}
  /\ Under(Now, <<"age">>) = Under(Was, <<"age">>)

Verbatim(t) == ~HoldsDirective(t.doc) /\ ~HoldsDirective(t.pathObj) /\ ~HoldsDirective(t.value)
\* update / setPath with returnBatchTask: the descriptor holds the request's
\* payload as the caller gave it
C20_AtConstruction ==
  \A r \in Requests :
    (r.kind \in {"update", "setPath"} /\ ReturnBatchTask(r)) =>
      /\ call'.pc = "returned"
      /\ call'.returned[1].doc = r.item
      /\ call'.returned[1].pathObj = r.pathObj
      /\ call'.returned[1].value = r.value
      /\ Verbatim(call'.returned[1])
      /\ held' = Append(held, call'.returned[1])
\* A descriptor the caller holds gets a directive only in an executeBatch call
C20_OnlyInExecuteBatch ==
  \A i \in DOMAIN held' :
    (~Verbatim(held'[i]) /\ (i \notin DOMAIN held \/ Verbatim(held[i]))) =>
      (call'.api = "executeBatch" /\ nCalls' = nCalls + 1 /\ call'.given = held)

\* C20: the sentinels are substituted inside executeBatch only; the descriptor
\* update or setPath returns holds the caller's payload with the sentinel
\* strings as given and no field-operator directive.
C20_NoSubstitutionAtConstruction ==
  [][C20_AtConstruction /\ C20_OnlyInExecuteBatch]_vars

\* update with returnBatchTask returned a descriptor whose payload holds the
\* delete sentinel
C20_Witness ==
  /\ call.returnBatchTask /\ call.api = "update" /\ call.pc = "returned"
  /\ Holds(call.returned[1].doc, MagicDeleteString)
  /\ held # << >> /\ held[Len(held)] = call.returned[1]

\* C21 as stated: the substitution applied to a bare scalar that equals the
\* delete sentinel (here the replacement value of a setPath at
\* favFoods.american) gives the remove-this-field directive.
C21_BareSentinelSubstituted ==
  (InExecuteBatch /\ Len(call.given) = 1 /\ call.given[1].type = "setPath"
     /\ call.given[1].pathObj = AmericanPath /\ call.given[1].value = DeleteAmerican
     /\ call.pc # "threw") =>
    /\ Len(call.ops) = 1
    /\ call.ops[1].data.leaf
    /\ call.ops[1].data.v = FieldValueDelete

\* ---------------------------------------------------------- claims: reads
\* The limit the backend query of a description runs with
EffectiveLimit(q) == IF q.limit = << >> THEN defaultQueryLimit ELSE q.limit[1]
Answered == {k \in DOMAIN pages : ~pages[k].threw}

\* C22 as stated: query returns a nextQuery exactly when the page holds as
\* many items as the effective limit (the requested limit, or the default cap
\* when none was given), and the nextQuery is the description asked with the
\* id of the last item of the page as its continuation token.
C22_ContinuationAtEffectiveLimit ==
  \A k \in Answered :
    /\ pages[k].nextQuery # << >> <=> Len(pages[k].items) = EffectiveLimit(asked[k])
    /\ pages[k].nextQuery # << >> =>
         pages[k].nextQuery[1] =
           [asked[k] EXCEPT !._internalStartAfterDocId =
                              <<pages[k].rawDocItems[Len(pages[k].rawDocItems)]>>]

\* The walk of the pagination test: {limit: 2} asked of a store of 4 people
LimitTwoOfFour ==
  /\ asked # << >>
  /\ asked[1] = SimpleQuery(<<2>>, << >>, << >>, << >>, << >>)
  /\ store = People(4)
FirstTwoThenOtherTwo ==
  /\ ~pages[1].threw
  /\ pages[1].rawDocItems = <<PersonId(1), PersonId(2)>>
  /\ pages[1].nextQuery # << >>
  /\ Len(pages) >= 2 =>
       /\ ~pages[2].threw
       /\ pages[2].rawDocItems = <<PersonId(3), PersonId(4)>>
       /\ pages[2].items = <<store[PersonId(3)].data, store[PersonId(4)].data>>

\* C23 as stated: a query with limit 2 against exactly 4 stored items returns
\* 2 items and a continuation, and the query of that continuation returns the
\* other 2 items and no continuation.
C23_TwoPagesOfTwo ==
  LimitTwoOfFour =>
    /\ FirstTwoThenOtherTwo
    /\ Len(pages) >= 2 => pages[2].nextQuery = << >>

\* C23 amended: ... the query of that continuation returns the other 2 items
\* and a continuation, whose query returns no items and no continuation.
C23_TwoPagesOfTwoThenAnEmptyOne ==
  LimitTwoOfFour =>
    /\ FirstTwoThenOtherTwo
    /\ Len(pages) >= 2 => pages[2].nextQuery # << >>
    /\ Len(pages) >= 3 =>
         /\ ~pages[3].threw
         /\ pages[3].items = << >>
         /\ pages[3].nextQuery = << >>
    /\ Len(pages) <= 3

\* the walk of {limit: 2} over 4 people at its end: three queries made
C23_Witness ==
  /\ LimitTwoOfFour
  /\ Len(pages) = 3
  /\ pages[3].nextQuery = << >>

\* The walk: every query answered so far, the last answer without nextQuery
WalkAnswered == pages # << >> /\ Answered = DOMAIN pages
WalkEnded == WalkAnswered /\ pages[Len(pages)].nextQuery = << >>
\* The ids of the pages so far, one page after the other
RECURSIVE Visited(_)
Visited(k) == IF k = 0 THEN << >> ELSE Visited(k - 1) \o pages[k].rawDocItems
\* Every item the first description matches, in the order of the query
FullResult ==
  LET all == UpTo(QueryOf(asked[1]), store)
  IN [k \in DOMAIN all |-> PersonId(all[k])]
NoDuplicates(s) == \A i, j \in DOMAIN s : s[i] = s[j] => i = j

\* C24: in a store that does not change, for a description with a limit of 1
\* or more, the pages of a walk along nextQuery are pairwise disjoint and
\* their concatenation is the start of the full result in the query's order;
\* when a page comes without nextQuery it is the full result.
C24_WalkVisitsEveryItemOnce ==
  (WalkAnswered /\ asked[1].limit # << >>) =>
    /\ NoDuplicates(Visited(Len(pages)))
    /\ Visited(Len(pages)) = SubSeq(FullResult, 1, Len(Visited(Len(pages))))
    /\ WalkEnded => Visited(Len(pages)) = FullResult
    /\ \A k \in DOMAIN pages :
         pages[k].items = [i \in DOMAIN pages[k].rawDocItems |-> store[pages[k].rawDocItems[i]].data]

\* a walk of three pages over people ordered by age, two of the same age,
\* ended with all four visited
C24_Witness ==
  /\ WalkEnded
  /\ asked[1].orderBy # << >> /\ asked[1].limit = <<2>>
  /\ Len(pages) = 3
  /\ Len(FullResult) = 4
  /\ Visited(3) = FullResult

\* C25: the pagination loop terminates: a walk with limit L over N matching
\* items (store unchanged) makes at most floor(N / L) + 1 queries, the query
\* that reaches that number is answered without nextQuery and no earlier one
\* is, and when N is a positive multiple of L that last query is one extra
\* round trip answered by an empty page.
C25_WalkTerminates ==
  (WalkAnswered /\ asked[1].limit # << >>) =>
    LET N == Len(FullResult)
        L == asked[1].limit[1]
    IN /\ Len(asked) <= (N \div L) + 1
       /\ WalkEnded <=> Len(asked) = (N \div L) + 1
       /\ (WalkEnded /\ N > 0 /\ N % L = 0) =>
            /\ pages[Len(pages)].items = << >>
            /\ \A k \in 1..(Len(pages) - 1) : Len(pages[k].items) = L

\* a walk of limit 1 over three people ended: four queries, the last one empty
C25_Witness ==
  /\ WalkEnded
  /\ asked[1].limit = <<1>> /\ Len(FullResult) = 3
  /\ Len(asked) = 4
  /\ pages[4].items = << >>

\* C26: a description that carries a continuation token compiles to a query
\* anchored strictly after the item of that id, its startAt values ignored;
\* startAt anchors the query only when there is no token; endAt is applied in
\* both cases. Every page answered lies within the anchors of its query.
Compiled(k) == QueryOf(asked[k])
DocsOf(k) == {RankOf(store, pages[k].rawDocItems[n]) : n \in DOMAIN pages[k].rawDocItems}
C26_TokenBeforeStartAt ==
  \A k \in DOMAIN asked :
    ~Compiled(k).threw =>
      LET q == asked[k]
          c == Compiled(k)
      IN /\ q._internalStartAfterDocId # << >> =>
              /\ c.startAfter = q._internalStartAfterDocId
              /\ c.startAt = << >>
              /\ k \in Answered =>
                   \A i \in DocsOf(k) :
                     Precedes(store, c, RankOf(store, q._internalStartAfterDocId[1]), i)
         /\ q._internalStartAfterDocId = << >> =>
              /\ c.startAfter = << >>
              /\ c.startAt = q.startAt
              /\ (k \in Answered /\ q.startAt # << >>) =>
                   \A i \in DocsOf(k) : AtOrAfter(store, c, i, q.startAt[1])
         /\ c.endAt = q.endAt
         /\ (k \in Answered /\ q.endAt # << >>) =>
              \A i \in DocsOf(k) : AtOrBefore(store, c, i, q.endAt[1])

\* a description with startAt, endAt and a token was answered with an item
C26_Witness ==
  /\ Len(asked) >= 2 /\ 2 \in Answered
  /\ asked[2]._internalStartAfterDocId # << >>
  /\ asked[2].startAt # << >> /\ asked[2].endAt # << >>
  /\ pages[2].items # << >>
  /\ pages[1].items # << >> /\ asked[1].startAt # << >>

\* C27: get of a list of ids some of which are missing either throws one
\* error that names exactly the missing ids (the default) or, with
\* ignoreMissingIds, returns exactly the documents of the ids that exist and
\* logs a warning naming the missing ones; it never returns fewer documents
\* than ids were asked for without a throw or a warning, and when every id
\* exists it returns one document for each id asked for.
MissingOf(ids) == {ids[k] : k \in {n \in DOMAIN ids : ~DocAt(store, ids[n]).exists}}
TimesIn(s, x) == Cardinality({k \in DOMAIN s : s[k] = x})
OneDocumentPerExistingId ==
  /\ \A id \in Ids :
       DocAt(store, id).exists =>
         TimesIn(got.docs, DocAt(store, id).data) = TimesIn(got.ids, id)
  /\ \A k \in DOMAIN got.docs :
       \E n \in DOMAIN got.ids :
         DocAt(store, got.ids[n]).exists /\ got.docs[k] = DocAt(store, got.ids[n]).data
C27_MissingIdsThrowOrWarn ==
  got.pc # "idle" =>
    LET missing == MissingOf(got.ids)
    IN /\ (missing # {} /\ ~got.options.ignoreMissingIds) =>
            /\ got.pc = "threw" /\ got.error = MissingIdsError
            /\ {got.named[k] : k \in DOMAIN got.named} = missing
            /\ got.docs = << >>
       /\ (missing # {} /\ got.options.ignoreMissingIds) =>
            /\ got.pc = "returned" /\ got.warned
            /\ {got.named[k] : k \in DOMAIN got.named} = missing
            /\ OneDocumentPerExistingId
       /\ (got.pc = "returned" /\ Len(got.docs) < Len(got.ids)) => got.warned
       /\ missing = {} =>
            /\ got.pc = "returned" /\ ~got.warned
            /\ Len(got.docs) = Len(got.ids)
            /\ OneDocumentPerExistingId

\* get of an id that exists and one that does not, with ignoreMissingIds:
\* one document came back, with a warning
C27_Witness ==
  /\ got.pc = "returned" /\ got.options.ignoreMissingIds
  /\ Len(got.ids) = 2 /\ Cardinality(MissingOf(got.ids)) = 1
  /\ Len(got.docs) = 1 /\ got.warned

\* ------------------------------------------------------- claims: add and ids
\* The item add validates: the request's item, with a generated id when the
\* client adds ids and the item has none
Validated(r) ==
  IF config.addIdPropertyByDefault /\ Falsy(ItemId(r.item))
  THEN SetId(r.item, generateId(config, generated + 1))
  ELSE r.item
FailsSchema(r) == r.kind = "add" /\ ~validateDoc(Validated(r))

\* C28: add of an item that fails the schema rejects with the error that
\* names the collection and writes nothing: no task is returned, no batch is
\* built or committed, the store and the caller's array are as before and
\* docsWritten is not increased, with returnBatchTask and without.
C28_InvalidAddWritesNothing ==
  [][\A r \in Requests :
       (FailsSchema(r) /\ (ReturnBatchTask(r) \/ Direct(r))) =>
         /\ call'.pc = "threw" /\ call'.error = SchemaError
         /\ call'.returned = << >>
         /\ call'.tasks = << >> /\ call'.ops = << >> /\ call'.commits = 0
         /\ store' = store /\ held' = held /\ nCalls' = nCalls
         /\ stats'.docsWritten = stats.docsWritten]_vars

\* after one task was built, add of the malformed person with returnBatchTask
\* threw: still one task held, one document counted
C28_Witness ==
  /\ call.api = "add" /\ call.returnBatchTask
  /\ call.pc = "threw" /\ call.error = SchemaError
  /\ Len(held) = 1 /\ stats.docsWritten = 1
  /\ store = InitialStore

\* The descriptor a call of add / update / setPath / delete built in this step
Built == IF call'.returnBatchTask THEN call'.returned[1] ELSE call'.given[1]
\* add by a client that adds ids: an item without id gets the next generated
\* id, which no stored document and no descriptor held has, and the task
\* carries it as its id and in its document; an item with an id is taken as
\* it is
C29_Construction ==
  \A r \in Requests :
    (/\ r.kind = "add" /\ config.addIdPropertyByDefault /\ ~FailsSchema(r)
     /\ (ReturnBatchTask(r) \/ Direct(r))) =>
      IF Falsy(ItemId(r.item))
      THEN /\ generated' = generated + 1
           /\ Built.id = generateId(config, generated + 1)
           /\ ~Falsy(Built.id)
           /\ Built.id \notin DOMAIN store
           /\ \A k \in DOMAIN held : held[k].id # Built.id
           /\ Built.doc = SetId(r.item, Built.id)
           /\ ItemId(Built.doc) = Built.id
      ELSE /\ generated' = generated
           /\ Built.id = ItemId(r.item)
           /\ Built.doc = r.item
\* after the commit, each add task's document is stored under the task's id
\* and holds that id in its id field
C29_Stored ==
  (config.addIdPropertyByDefault /\ InExecuteBatch /\ call.pc = "returned") =>
    \A k \in DOMAIN call.tasks :
      LET t == call.tasks[k]
      IN (t.type = "add" /\ \A n \in (k + 1)..Len(call.tasks) : call.tasks[n].id # t.id) =>
           /\ DocAt(store, t.id).exists
           /\ DocAt(store, t.id).data = Flatten(t.doc, << >>)
           /\ [p |-> <<"id">>, v |-> StringValue(t.id)] \in DocAt(store, t.id).data

\* C29: with addIdPropertyByDefault, add of an item without id gives it a
\* freshly generated id; the id of the task, the key of the stored document
\* and the id field of the stored document are that id; an item that has an
\* id keeps it.
C29_GeneratedIdIsTheKey ==
  /\ [](C29_Stored)
  /\ [][C29_Construction]_vars

\* add of the person without id was committed: the document is stored under
\* the generated id
C29_Witness ==
  /\ config.addIdPropertyByDefault
  /\ InExecuteBatch /\ call.pc = "returned"
  /\ \E k \in DOMAIN call.tasks :
       /\ call.tasks[k].type = "add" /\ call.tasks[k].id = generateId(config, 1)
       /\ DocAt(store, generateId(config, 1)).exists
       /\ generateId(config, 1) \notin DOMAIN InitialStore

\* C30 as stated: every non-empty descriptor that add, update, setPath or
\* delete produced carries a non-blank id and the collection name; a request
\* whose id is missing or blank fails at the call that builds the task, with
\* returnBatchTask and without: no descriptor is returned to the caller and
\* none reaches executeBatch.
C30_NoDescriptorWithoutAnId ==
  call.api \in Kinds =>
    /\ (call.returnBatchTask /\ call.pc = "returned") =>
         /\ ~Falsy(call.returned[1].id)
         /\ call.returned[1].collection = "person"
    /\ \A k \in DOMAIN call.given :
         call.given[k].type # "empty" =>
           ~Falsy(call.given[k].id) /\ call.given[k].collection = "person"
    /\ AllCarryAnId(held)

\* ---------------------------------------------------- claims: the read path
\* What the backend answers to the k-th description of the walk
Backend(k) == RunQuery(QueryOf(asked[k]), store)
\* C31: the read path is permissive: a stored document the schema refuses is
\* returned by query and by get all the same, with a warning logged and the
\* call not failing for it, and it counts in the page size that decides
\* whether a nextQuery is returned.
C31_InvalidDocumentsAreReturned ==
  /\ \A k \in DOMAIN pages :
       ~QueryOf(asked[k]).threw /\ ~Backend(k).threw =>
         LET docs == Backend(k).docs
         IN /\ k \in Answered
            /\ pages[k].rawDocItems = docs
            /\ pages[k].items = [n \in DOMAIN docs |-> store[docs[n]].data]
            /\ pages[k].warned <=> \E n \in DOMAIN docs : ~ValidData(store[docs[n]].data)
            /\ asked[k].limit # << >> =>
                 (pages[k].nextQuery # << >> <=> Len(docs) = asked[k].limit[1])
  /\ got.pc # "idle" =>
       /\ got.pc = "threw" => MissingOf(got.ids) # {}
       /\ got.pc = "returned" =>
            /\ \A n \in DOMAIN got.ids :
                 DocAt(store, got.ids[n]).exists =>
                   \E k \in DOMAIN got.docs : got.docs[k] = DocAt(store, got.ids[n]).data
            /\ got.schemaWarned <=>
                 \E n \in DOMAIN got.ids :
                   DocAt(store, got.ids[n]).exists /\ ~ValidData(DocAt(store, got.ids[n]).data)

\* a page of limit 2 whose second item has no favFoods.american: both items
\* returned, a warning, and a nextQuery
C31_Witness ==
  /\ Len(pages) = 2 /\ 2 \in Answered
  /\ asked[2].limit = <<2>>
  /\ Len(pages[2].items) = 2
  /\ ~ValidData(pages[2].items[2])
  /\ pages[2].warned
  /\ pages[2].nextQuery # << >>

\* A filter clause whose leaf is a bare value, not an [operator, value] pair
MalformedClause(w) ==
  LET r == generateFirestorePathFromObject(w, << >>)
  IN ~r.threw /\ r.value.t # "array"
Malformed(q) == \E k \in DOMAIN q.where : MalformedClause(q.where[k])
\* C32: a description with a malformed filter clause is rejected with an
\* error while it is compiled: query asks the backend for nothing and
\* returns no page, querySubscription returns no subscription object, so no
\* listener is registered for the description.
C32_MalformedFilterRejectedAtCompile ==
  /\ \A k \in DOMAIN asked :
       Malformed(asked[k]) =>
         /\ pages[k].threw /\ pages[k].error = QueryValueError
         /\ pages[k].fetches = 0
         /\ pages[k].items = << >> /\ pages[k].nextQuery = << >>
         /\ stats.docsFetched = 0
  /\ (sub.pc # "idle" /\ Malformed(sub.query[1])) =>
       /\ sub.pc = "threw" /\ sub.error = QueryValueError
       /\ sub.queryRef = << >> /\ sub.attached = 0

\* querySubscription of a description whose filter is {age: 35} threw
C32_Witness ==
  /\ sub.pc = "threw" /\ sub.error = QueryValueError
  /\ Malformed(sub.query[1])
  /\ store # People(0)

\* The keys of a chain as a dotted path: "cat.dog.worm"
RECURSIVE Dotted(_)
Dotted(chain) ==
  IF Len(chain) = 0 THEN << >>
  ELSE IF Len(chain) = 1 THEN <<chain[1]>>
  ELSE <<chain[1], ".">> \o Dotted(Tail(chain))
\* C33: for a shape-object of any depth the path resolver returns the keys it
\* went through, joined by dots, and the leaf it reached; a level with more
\* than one key makes it log a warning, not throw, and it follows the first
\* key of that level.
C33_PathAndLeaf ==
  resolved.pc # "idle" =>
    /\ resolved.pc = "returned"
    /\ resolved.path = Dotted(shape.chain)
    /\ resolved.value = shape.leaf
    /\ resolved.warned <=> shape.extras # {}

\* {cat: {dog: {worm: 5}, zebra: {ant: 7}}} resolved to "cat.dog.worm" and 5,
\* with a warning
C33_Witness ==
  /\ resolved.pc = "returned"
  /\ shape.chain = <<"cat", "dog", "worm">> /\ shape.extras = {2}
  /\ resolved.path = <<"cat", ".", "dog", ".", "worm">>
  /\ resolved.value = NumberValue(5)
  /\ resolved.warned

\* ------------------------------------------------- claims: the stats view
\* The view of the active subscriptions is the registry: one entry for each
\* fingerprint the registry holds, with the number of its callbacks
C34_ViewIsTheRegistry ==
  /\ DOMAIN stats.activeSubscriptions = DOMAIN firestoreSubscriptions
  /\ \A f \in DOMAIN firestoreSubscriptions :
       /\ stats.activeSubscriptions[f].subscriberCount =
            Cardinality(firestoreSubscriptions[f].fns)
       /\ stats.activeSubscriptions[f].subscriptionDetails =
            firestoreSubscriptions[f].subscriptionDetails
\* The cumulative counter grows by one in the steps that create a backend
\* listener and in no other step, and never decreases
C34_CountsTheListeners ==
  /\ stats'.totalSubscriptionsOverTime >= stats.totalSubscriptionsOverTime
  /\ stats'.totalSubscriptionsOverTime =
       stats.totalSubscriptionsOverTime + (Len(listeners') - Len(listeners))
  /\ Len(listeners') - Len(listeners) \in {0, 1}

C35_SortedWhateverTheCompletionOrder ==
  got.pc = "returned" =>
    /\ \A k \in 1..(Len(got.keys) - 1) :
         RankOf(store, got.keys[k]) >= RankOf(store, got.keys[k + 1])
    /\ got.keys = SortSeq(SelectSeq(got.ids, LAMBDA id : DocAt(store, id).exists),
                          LAMBDA a, b : RankOf(store, a) > RankOf(store, b))

\* --------------------------------------------------- claims: late events
\* C36 as stated: a backend event or error that reaches the callback of a
\* listener after the last subscriber of its fingerprint has unsubscribed,
\* the entry deleted, is ignored: the handler raises no error, calls no
\* callback and leaves the registry and its cached values as they are.
C36_LateEventIgnored ==
  [][\A l \in DOMAIN listeners :
       (/\ ~listeners[l].attached
        /\ ~HasEntry(State, listeners[l].fp)
        /\ (BackendSnapshot(l) \/ BackendError(l))) =>
         /\ uncaught' = uncaught
         /\ console' = console
         /\ received' = received /\ errReceived' = errReceived
         /\ ~fan'.active
         /\ firestoreSubscriptions' = firestoreSubscriptions]_vars

\* C37 as stated: an event of a listener that has been detached never
\* reaches a later entry of the same fingerprint: when the entry has been
\* created again, with a listener of its own, a late event of the old
\* listener does not overwrite the new entry's cached value and is not
\* delivered to the new entry's subscribers.
C37_OldListenerNeverReachesNewEntry ==
  [][\A l \in DOMAIN listeners :
       (/\ ~listeners[l].attached
        /\ HasEntry(State, listeners[l].fp)
        /\ firestoreSubscriptions[listeners[l].fp].firestoreUnsubscribeFn # l
        /\ (BackendSnapshot(l) \/ BackendError(l))) =>
         /\ firestoreSubscriptions'[listeners[l].fp].currentValue =
              firestoreSubscriptions[listeners[l].fp].currentValue
         /\ ~fan'.active
         /\ received' = received /\ errReceived' = errReceived]_vars

\* A subscribe (a step that hands out a new handle) to a fingerprint whose
\* subscribers have all unsubscribed and which had a value cached before: a
\* new listener, a fresh entry with no cached value, and nothing replayed to
\* the callback
C38_FreshEntry ==
  Len(handles') = Len(handles) + 1 =>
    LET h == Len(handles')
        f == handles'[h].fp
    IN (/\ \A g \in DOMAIN handles : handles[g].fp = f => handles[g].leftAt # -1
        /\ broadcast[f] # << >>) =>
         /\ h = firestoreSubscriptionIdCounter
         /\ Len(listeners') = Len(listeners) + 1
         /\ listeners'[Len(listeners')].attached
         /\ f \in DOMAIN firestoreSubscriptions'
         /\ firestoreSubscriptions'[f].firestoreUnsubscribeFn = Len(listeners')
         /\ firestoreSubscriptions'[f].currentValue = << >>
         /\ firestoreSubscriptions'[f].fns = {h}
         /\ handles'[h].replay = << >>
         /\ received'[h] = << >>
\* The callback of a subscribe that created its entry is first called with
\* the first value cached after it joined
C38_FirstCalledByTheNextEvent ==
  \A h \in DOMAIN handles :
    (handles[h].listener # 0 /\ handles[h].replay = << >> /\ received[h] # << >>) =>
      LET f == handles[h].fp
      IN /\ Len(broadcast[f]) > handles[h].joinIdx
         /\ received[h][1] = broadcast[f][handles[h].joinIdx + 1].value

\* C38: the cached last value dies with its entry: after the last subscriber
\* of a fingerprint has unsubscribed, a subscribe to the same fingerprint
\* creates a fresh entry and a new backend listener, its callback gets no
\* replay of the value cached before the teardown and is first called by the
\* next backend event.
C38_CachedValueDiesWithTheEntry ==
  /\ [](C38_FirstCalledByTheNextEvent)
  /\ [][C38_FreshEntry]_vars

\* a value was cached, the only subscriber left, and the fingerprint was
\* subscribed again: second listener, nothing received yet, no value cached
C38_Witness ==
  /\ Len(handles) = 2 /\ handles[1].fp = handles[2].fp
  /\ handles[1].leftAt >= 1
  /\ handles[2].listener = 2 /\ handles[2].joinIdx >= 1
  /\ received[1] # << >> /\ received[2] = << >>
  /\ firestoreSubscriptions[handles[2].fp].currentValue = << >>

\* C39: executeBatch leaves the task descriptors it is given unchanged:
\* whether it committed or threw, every task's payload after the call equals
\* the payload before the call, sentinel strings included.
C39_DescriptorsLeftAsGiven ==
  InExecuteBatch =>
    /\ Len(call.tasks) = Len(call.given)
    /\ \A i \in DOMAIN call.given : call.tasks[i].doc = call.given[i].doc

====
